---- MODULE Spec2Model ----
(***************************************************************************)
(* Staged pipeline, checkpointed analysis, parallel build and incremental  *)
(* update of the UE5 knowledge-base builder (src/ue5_kb).                  *)
(*                                                                         *)
(* The persisted world is the source tree (build-declaration files and     *)
(* their module content) and the artifacts below KnowledgeBase/.  Every    *)
(* artifact is a path <<area, module, file>>; the files whose content      *)
(* decides later behaviour have their content in a variable of their own.  *)
(***************************************************************************)
EXTENDS Integers, Sequences, FiniteSets, Bags, TLC

\* ------------------------------------------------------------------ bounds
NumDirs == 5
MaxHash == 2
MaxClock == 1
MaxEdits == 2
PipelineModules == 1
NumWorkers == 2
MaxFiles == 3

Dirs == 1..NumDirs
Hashes == 1..MaxHash
Names == <<"A", "B", "C", "D">>

\* module name of the build-declaration file found in directory d; two
\* directories may hold a declaration file with the same stem
NameIdx(d) == ((d - 1) % Len(Names)) + 1
DirName(d) == Names[NameIdx(d)]
NameSet == {Names[i] : i \in 1..Len(Names)}

VARIABLES
    tree,         \* source tree: directory -> content hash of the module in it
    files,        \* artifact paths that exist below KnowledgeBase/
    modulesJson,  \* data/discover/modules.json: the module list, sorted by name
    pstate,       \* .pipeline_state: stage -> "completed" | "failed"
    checkpoint,   \* data/analyze/.analyze_checkpoint: the "completed" list
    manifest,     \* .kb_manifest.json, or NoManifest
    clock,        \* wall clock read by datetime.now()
    edits,        \* number of edits made to the source tree so far
    run,          \* the stage run in progress: its tasks and local variables
    parser,       \* the parser at work: its input, its position and its result
    index,        \* the rows of the flattened indices and the dependency graph
    last          \* what the last invocation returned and did

vars == <<tree, files, modulesJson, pstate, checkpoint, manifest, clock, edits, run,
         parser, index, last>>

\* ------------------------------------------------------------------ paths
STAGES == <<"discover", "extract", "analyze", "build">>
StageSet == {STAGES[i] : i \in 1..Len(STAGES)}

KBDir == <<"kb", "", "/">>
ConfigYaml == <<"kb", "", "config.yaml">>
ModulesJsonPath == <<"discover", "", "modules.json">>
ExtractSummary == <<"extract", "", "summary.json">>
AnalyzeSummary == <<"analyze", "", "summary.json">>
CheckpointPath == <<"analyze", "", ".analyze_checkpoint">>
BuildSummary == <<"build", "", "build_summary.json">>
GlobalIndexPkl == <<"global_index", "", "global_index.pkl">>
IndexDb == <<"global_index", "", "index.db">>
ClassIndexDb == <<"global_index", "", "class_index.db">>
FunctionIndexDb == <<"global_index", "", "function_index.db">>
GraphsDir == <<"module_graphs", "", "/">>
DependenciesJson(n) == <<"extract", n, "dependencies.json">>
ModuleManifestJson(n) == <<"extract", n, "module_manifest.json">>
CodeGraphJson(n) == <<"analyze", n, "code_graph.json">>
GraphJson(n) == <<"module_graphs", n, "json">>
GraphPkl(n) == <<"module_graphs", n, "pkl">>

EmptyFn == [x \in {} |-> 0]
NoManifest == [present |-> FALSE, modules |-> EmptyFn, files |-> EmptyFn]
NoDiff == [added |-> {}, modified |-> {}, removed |-> {}, unchanged |-> {}]
\* the summary of a stage run: summary.json and the value run() returns
NoSummary == [total_modules |-> 0, success_count |-> 0, failed_count |-> 0,
              failed_modules |-> <<>>]
Idle == [op |-> "none", stage |-> "", force |-> FALSE,
         outcome |-> "", processed |-> {}, diff |-> NoDiff, summary |-> NoSummary]

NoParser == [op |-> "none"]
NoIndex == [op |-> "none"]

NoRun == [impl |-> "none", force |-> FALSE, phase |-> "", order |-> <<>>, idx |-> 0,
          tphase |-> EmptyFn, completed_modules |-> {}, success |-> {}, failed |-> {},
          failed_modules |-> <<>>]

\* ------------------------------------------------------------------ helpers
Range(s) == {s[i] : i \in 1..Len(s)}

\* every order of the set S
RECURSIVE PermsOf(_)
PermsOf(S) ==
    IF S = {} THEN {<<>>}
    ELSE UNION {{<<x>> \o p : p \in PermsOf(S \ {x})} : x \in S}

\* sorted(modules, key=name): every order of S that is sorted by name (the
\* order rglob yields same-named declaration files in is not determined)
RECURSIVE SortedFrom(_, _)
SortedFrom(S, k) ==
    IF k > Len(Names) THEN {<<>>}
    ELSE {p \o q : p \in PermsOf({d \in S : NameIdx(d) = k}), q \in SortedFrom(S, k + 1)}

SortedByName(S) == SortedFrom(S, 1)

\* DiscoverStage._discover_modules over the present tree
DiscoverModules == SortedByName(DOMAIN tree)

\* PipelineStage.is_completed and its overrides: an output file exists
is_completed(s, fs) ==
    CASE s = "discover" -> ModulesJsonPath \in fs
      [] s = "extract" -> ExtractSummary \in fs
      [] s = "analyze" -> AnalyzeSummary \in fs
      [] s = "build" -> IndexDb \in fs

\* PipelineState.is_completed: the state file's record of the stage
state_is_completed(s, ps) == s \in DOMAIN ps /\ ps[s] = "completed"

\* PipelineCoordinator.validate_dependencies
dependencies(s) ==
    CASE s = "discover" -> {}
      [] s = "extract" -> {"discover"}
      [] s = "analyze" -> {"discover", "extract"}
      [] s = "build" -> {"discover", "extract", "analyze"}

validate_dependencies(s, fs) == \A r \in dependencies(s) : is_completed(r, fs)

\* PipelineState.mark_completed / mark_failed: _save_state opens the file in
\* KnowledgeBase/, which must exist
MarkState(ps, s, v, fs) ==
    IF KBDir \in fs THEN [x \in DOMAIN ps \cup {s} |-> IF x = s THEN v ELSE ps[x]]
    ELSE ps

\* PipelineState.clear_stage
clear_stage(ps, s) == [x \in DOMAIN ps \ {s} |-> ps[x]]

AnalyzeDirExists(fs) == \E p \in fs : p[1] = "analyze"

\* names that have an analysis payload on disk (analyze_dir.iterdir())
AnalyzedNames(fs) == {n \in NameSet : CodeGraphJson(n) \in fs}

\* ------------------------------------------------------- what a stage writes
Parallels == {1, 2}

\* ExtractStage._save_module_dependencies (serial: dependency file and module
\* manifest) and _extract_module_worker (worker pool: dependency file only)
ExtractWrites(ok, par) ==
    {DependenciesJson(DirName(d)) : d \in ok}
        \cup (IF par = 1 THEN {ModuleManifestJson(DirName(d)) : d \in ok} ELSE {})

\* AnalyzeStage._save_code_graph / _analyze_module_worker
AnalyzeWrites(ok) == {CodeGraphJson(DirName(d)) : d \in ok}

\* BuildStage._build_module_graphs / ParallelBuildStage._build_module_graph
GraphWrites(okNames) == {GraphJson(n) : n \in okNames} \cup {GraphPkl(n) : n \in okNames}

\* GlobalIndex.save followed by _sync_to_sqlite
GlobalIndexWrites == {GlobalIndexPkl, IndexDb}

\* ClassIndex(...) and FunctionIndex(...) open (and so create) their databases
FastIndexWrites == {ClassIndexDb, FunctionIndexDb}

Report(s, force, par, outcome, processed) ==
    [op |-> "run_stage", stage |-> s, force |-> force,
     outcome |-> outcome, processed |-> processed, diff |-> NoDiff,
     summary |-> NoSummary]

\* --------------------------------------------------------------- run_stage
\* PipelineCoordinator.run_stage, first branch: the stage is skipped
RunStageSkipped(s, force, par) ==
    /\ is_completed(s, files) /\ ~force
    /\ last' = Report(s, force, par, "skipped", {})
    /\ UNCHANGED <<tree, files, modulesJson, pstate, checkpoint, manifest, clock, edits, run, parser, index>>

\* run_stage("discover"): DiscoverStage.run, then mark_completed
RunDiscover(force, par) ==
    /\ ~(is_completed("discover", files) /\ ~force)
    /\ \E ml \in DiscoverModules :
        /\ modulesJson' = ml
        /\ files' = files \cup {KBDir, ModulesJsonPath}
        /\ pstate' = MarkState(pstate, "discover", "completed", files')
        /\ last' = Report("discover", force, par, "ok", {<<"discover", d>> : d \in Range(ml)})
    /\ UNCHANGED <<tree, checkpoint, manifest, clock, edits, run, parser, index>>

\* run_stage("extract"): ExtractStage.run (serial or worker pool), then
\* mark_completed; RuntimeError and mark_failed when modules.json is missing
RunExtract(force, par) ==
    /\ ~(is_completed("extract", files) /\ ~force)
    /\ IF ModulesJsonPath \notin files
       THEN /\ files' = files
            /\ pstate' = MarkState(pstate, "extract", "failed", files)
            /\ last' = Report("extract", force, par, "error", {})
       ELSE \E oc \in [Range(modulesJson) -> {"success", "error"}] :
            LET ok == {d \in Range(modulesJson) : oc[d] = "success"} IN
            /\ files' = files \cup {KBDir, ExtractSummary} \cup ExtractWrites(ok, par)
            /\ pstate' = MarkState(pstate, "extract", "completed", files')
            /\ last' = Report("extract", force, par, "ok",
                              {<<"extract", d>> : d \in Range(modulesJson)})
    /\ UNCHANGED <<tree, modulesJson, checkpoint, manifest, clock, edits, run, parser, index>>

\* run_stage("analyze"): AnalyzeStage.run (the parallel argument is ignored),
\* then mark_completed; RuntimeError and mark_failed when modules.json is missing
RunAnalyze(force, par) ==
    /\ ~(is_completed("analyze", files) /\ ~force)
    /\ IF ModulesJsonPath \notin files
       THEN /\ files' = files
            /\ pstate' = MarkState(pstate, "analyze", "failed", files)
            /\ last' = Report("analyze", force, par, "error", {})
       ELSE \E oc \in [Range(modulesJson) -> {"success", "skipped", "error"}] :
            LET ok == {d \in Range(modulesJson) : oc[d] = "success"} IN
            /\ files' = files \cup {KBDir, AnalyzeSummary} \cup AnalyzeWrites(ok)
            /\ pstate' = MarkState(pstate, "analyze", "completed", files')
            /\ last' = Report("analyze", force, par, "ok",
                              {<<"analyze", d>> : d \in Range(modulesJson)})
    /\ UNCHANGED <<tree, modulesJson, checkpoint, manifest, clock, edits, run, parser, index>>

\* BuildStage._run_serial: config, global index, module graphs, fast indices,
\* summary; _build_global_index raises when modules.json is missing
BuildSerial(fs, okNames) ==
    LET f1 == fs \cup {KBDir, ConfigYaml} IN
    IF ModulesJsonPath \notin fs
    THEN [files |-> f1, outcome |-> "error", built |-> {}]
    ELSE LET f2 == f1 \cup GlobalIndexWrites
             built == IF AnalyzeDirExists(fs) THEN okNames ELSE {}
             f3 == IF AnalyzeDirExists(fs) THEN f2 \cup {GraphsDir} \cup GraphWrites(built)
                   ELSE f2
         IN [files |-> f3 \cup FastIndexWrites \cup {BuildSummary},
             outcome |-> "ok", built |-> built]

\* ParallelBuildStage.run: config, module graphs by the pool, then global
\* index and fast indices; raises when the analyze directory is missing
BuildParallel(fs, okNames) ==
    LET f1 == fs \cup {KBDir, ConfigYaml, GraphsDir} IN
    IF ~AnalyzeDirExists(fs)
    THEN [files |-> f1, outcome |-> "error", built |-> {}]
    ELSE LET f2 == f1 \cup GraphWrites(okNames)
             f3 == IF ModulesJsonPath \in fs THEN f2 \cup GlobalIndexWrites ELSE f2
         IN [files |-> f3 \cup FastIndexWrites, outcome |-> "ok", built |-> okNames]

\* run_stage("build"): BuildStage.run picks the serial or the parallel build
RunBuild(force, par) ==
    /\ ~(is_completed("build", files) /\ ~force)
    /\ \E okNames \in SUBSET AnalyzedNames(files) :
        LET r == IF par > 1 THEN BuildParallel(files, okNames)
                 ELSE BuildSerial(files, okNames) IN
        /\ files' = r.files
        /\ pstate' = MarkState(pstate, "build",
                               IF r.outcome = "ok" THEN "completed" ELSE "failed", files')
        /\ last' = Report("build", force, par, r.outcome,
                          {<<"build", n>> : n \in r.built})
    /\ UNCHANGED <<tree, modulesJson, checkpoint, manifest, clock, edits, run, parser, index>>

\* PipelineCoordinator.clean_stage: PipelineStage.clean removes data/<stage>,
\* then PipelineState.clear_stage
CleanStage(s) ==
    /\ files' = {p \in files : p[1] # s}
    /\ modulesJson' = IF s = "discover" THEN <<>> ELSE modulesJson
    /\ checkpoint' = IF s = "analyze" THEN <<>> ELSE checkpoint
    /\ pstate' = clear_stage(pstate, s)
    /\ last' = [Idle EXCEPT !.op = "clean_stage", !.stage = s]
    /\ UNCHANGED <<tree, manifest, clock, edits, run, parser, index>>

InitPipeline ==
    /\ tree = [d \in 1..PipelineModules |-> 1]
    /\ files = {}
    /\ modulesJson = <<>>
    /\ pstate = EmptyFn
    /\ checkpoint = <<>>
    /\ manifest = NoManifest
    /\ clock = 0
    /\ edits = 0
    /\ run = NoRun
    /\ parser = NoParser
    /\ index = NoIndex
    /\ last = Idle

NextPipeline ==
    \/ \E s \in StageSet, force \in BOOLEAN, par \in Parallels : RunStageSkipped(s, force, par)
    \/ \E force \in BOOLEAN, par \in Parallels : RunDiscover(force, par)
    \/ \E force \in BOOLEAN, par \in Parallels : RunExtract(force, par)
    \/ \E force \in BOOLEAN, par \in Parallels : RunAnalyze(force, par)
    \/ \E force \in BOOLEAN, par \in Parallels : RunBuild(force, par)
    \/ \E s \in StageSet : CleanStage(s)

SpecPipeline == InitPipeline /\ [][NextPipeline]_vars

\* ------------------------------------------------------ incremental update
\* {m['name']: m for m in current}: a later record replaces an earlier one of
\* the same name
CurrentMap(ml) ==
    [n \in {DirName(d) : d \in Range(ml)} |->
        LET i == CHOOSE i \in 1..Len(ml) :
                    /\ DirName(ml[i]) = n
                    /\ \A j \in 1..Len(ml) : DirName(ml[j]) = n => j <= i
        IN tree[ml[i]]]

\* _compute_diff with the hash comparison inverted
compute_diff_inverted(old, cur) ==
    [added |-> DOMAIN cur \ DOMAIN old,
     modified |-> {n \in DOMAIN old \cap DOMAIN cur : old[n].hash = cur[n]},
     removed |-> DOMAIN old \ DOMAIN cur,
     unchanged |-> {n \in DOMAIN old \cap DOMAIN cur : old[n].hash # cur[n]}]

\* UpdateStage._compute_diff
compute_diff(old, cur) ==
    [added |-> DOMAIN cur \ DOMAIN old,
     modified |-> {n \in DOMAIN old \cap DOMAIN cur : old[n].hash # cur[n]},
     removed |-> DOMAIN old \ DOMAIN cur,
     unchanged |-> {n \in DOMAIN old \cap DOMAIN cur : old[n].hash = cur[n]}]

\* UpdateStage._merge_manifests
merge_manifests(old, cur, diff, now) ==
    [present |-> TRUE,
     modules |->
        [n \in ((DOMAIN old.modules) \cap (diff.unchanged \cup diff.modified)) \cup diff.added |->
            IF n \in DOMAIN old.modules /\ n \in diff.unchanged THEN old.modules[n]
            ELSE IF n \in DOMAIN old.modules /\ n \in diff.modified
            THEN [hash |-> cur[n], indexed_at |-> now,
                  file_count |-> old.modules[n].file_count]
            ELSE [hash |-> cur[n], indexed_at |-> now, file_count |-> 0]],
     files |-> old.files]

\* UpdateStage._update_changed_modules: returns the list of changed modules
\* and runs no stage
update_changed_modules(diff) ==
    [modules_to_update |-> diff.added \cup diff.modified, processed |-> {}]

UpdateReport(op, outcome, diff, processed) ==
    [op |-> op, stage |-> "", force |-> FALSE,
     outcome |-> outcome, processed |-> processed, diff |-> diff,
     summary |-> NoSummary]

\* UpdateStage.run / UpdateStage.check without a manifest
UpdateNoManifest(op) ==
    /\ ~manifest.present
    /\ last' = UpdateReport(op, "error", NoDiff, {})
    /\ UNCHANGED <<tree, files, modulesJson, pstate, checkpoint, manifest, clock, edits, run, parser, index>>

\* UpdateStage.run with a manifest: scan (DiscoverStage.run rewrites
\* modules.json), diff, update of the changed modules, merged manifest saved
UpdateRun ==
    /\ manifest.present
    /\ clock < MaxClock
    /\ \E ml \in DiscoverModules :
        LET cur == CurrentMap(ml)
            diff == compute_diff(manifest.modules, cur)
            res == update_changed_modules(diff)
        IN /\ modulesJson' = ml
           /\ files' = files \cup {KBDir, ModulesJsonPath}
           /\ clock' = clock + 1
           /\ IF diff.added = {} /\ diff.modified = {} /\ diff.removed = {}
              THEN /\ manifest' = manifest
                   /\ last' = UpdateReport("update", "up_to_date", diff, {})
              ELSE /\ manifest' = merge_manifests(manifest, cur, diff, clock')
                   /\ last' = UpdateReport("update", "updated", diff, res.processed)
    /\ UNCHANGED <<tree, pstate, checkpoint, edits, run, parser, index>>

\* UpdateStage.check with a manifest: scan and diff only
UpdateCheck ==
    /\ manifest.present
    /\ \E ml \in DiscoverModules :
        /\ modulesJson' = ml
        /\ files' = files \cup {KBDir, ModulesJsonPath}
        /\ last' = UpdateReport("check", "checked",
                                compute_diff(manifest.modules, CurrentMap(ml)), {})
    /\ UNCHANGED <<tree, pstate, checkpoint, manifest, clock, edits, run, parser, index>>

\* the developer edits the source tree: a module directory is added, its
\* content changes, or it is deleted
EditTree ==
    /\ edits < MaxEdits
    /\ edits' = edits + 1
    /\ \/ \E d \in Dirs \ DOMAIN tree, h \in Hashes :
            tree' = [x \in DOMAIN tree \cup {d} |-> IF x = d THEN h ELSE tree[x]]
       \/ \E d \in DOMAIN tree : \E h \in Hashes \ {tree[d]} :
            tree' = [tree EXCEPT ![d] = h]
       \/ \E d \in DOMAIN tree :
            tree' = [x \in DOMAIN tree \ {d} |-> tree[x]]
    /\ last' = [Idle EXCEPT !.op = "edit"]
    /\ UNCHANGED <<files, modulesJson, pstate, checkpoint, manifest, clock, run, parser, index>>

\* the manifest an earlier indexing of the tree t recorded
SnapshotManifest(t) ==
    [present |-> TRUE,
     modules |-> [n \in {DirName(d) : d \in DOMAIN t} |->
                    [hash |-> t[CHOOSE d \in DOMAIN t : DirName(d) = n],
                     indexed_at |-> 0, file_count |-> 1]],
     files |-> [n \in {DirName(d) : d \in DOMAIN t} |->
                    t[CHOOSE d \in DOMAIN t : DirName(d) = n]]]

\* the tree as the manifest recorded it; a module directory may have been
\* added since
IndexedTree == [d \in 1..3 |-> 1]

InitUpdate ==
    /\ tree \in {IndexedTree, [d \in 1..4 |-> 1]}
    /\ files = {}
    /\ modulesJson = <<>>
    /\ pstate = EmptyFn
    /\ checkpoint = <<>>
    /\ manifest \in {NoManifest, SnapshotManifest(IndexedTree)}
    /\ clock = 0
    /\ edits = 0
    /\ run = NoRun
    /\ parser = NoParser
    /\ index = NoIndex
    /\ last = Idle

NextUpdate ==
    \/ \E op \in {"update", "check"} : UpdateNoManifest(op)
    \/ UpdateRun
    \/ UpdateCheck
    \/ EditTree

SpecUpdate == InitUpdate /\ [][NextUpdate]_vars

\* ------------------------------------------------------------- analysis
\* CheckpointManager.load / get_completed_tasks: no file, no completed task
load(fs, cp) == IF CheckpointPath \in fs THEN cp ELSE <<>>

\* save_completed that writes the new task without loading the file first
save_completed_overwrite(cp, task_id) == <<task_id>>

\* CheckpointManager.save_completed on the loaded "completed" list
save_completed(cp, task_id) ==
    IF task_id \in Range(cp) THEN cp ELSE Append(cp, task_id)

\* ParallelAnalyzeStage.run, lines 169-178: the modules left to process
modules_to_process(modules, completed, force) ==
    IF force THEN Range(modules)
    ELSE {d \in Range(modules) : DirName(d) \notin completed}

\* the failure list of the summary of an analysis keeps this many modules
FailedCap == 10

\* failed_modules[:10]
FirstFailed(fm) == SubSeq(fm, 1, IF Len(fm) < FailedCap THEN Len(fm) ELSE FailedCap)

\* the module loop ends at the first exception: nothing is recorded
on_module_error_abort(r, d) == NoRun

\* the except branch of the module loop: the failure is appended to
\* failed_modules and the loop goes on with the next module
on_module_error(r, d) ==
    [r EXCEPT !.failed = @ \cup {d}, !.failed_modules = Append(@, DirName(d))]

\* the summary AnalyzeStage.run and ParallelAnalyzeStage.run save and return;
\* the worker pool counts every returned result that is not a failure
analyze_summary(r, modules) ==
    [total_modules |-> Len(modules),
     success_count |-> IF r.impl = "serial" THEN Cardinality(r.success)
                       ELSE Cardinality(DOMAIN r.tphase) - Len(r.failed_modules),
     failed_count |-> Len(r.failed_modules),
     failed_modules |-> FirstFailed(r.failed_modules)]

Tasks(r) == DOMAIN r.tphase
Active(r) == {t \in Tasks(r) : r.tphase[t] = "writing"}
Returned(r) == {t \in Tasks(r) : r.tphase[t] \in {"success", "skipped", "error"}}

StageReport(op, outcome, processed) ==
    [op |-> op, stage |-> "analyze", force |-> run.force,
     outcome |-> outcome, processed |-> processed, diff |-> NoDiff,
     summary |-> NoSummary]

\* ParallelAnalyzeStage.run up to the submission of the tasks
AStartParallel(force) ==
    /\ run.impl = "none"
    /\ ModulesJsonPath \in files
    /\ LET completed == Range(load(files, checkpoint))
           todo == modules_to_process(modulesJson, completed, force)
       IN IF todo = {}
          THEN /\ run' = run
               /\ last' = [Idle EXCEPT !.op = "start", !.stage = "analyze",
                                       !.force = force, !.outcome = "nothing to do"]
          ELSE /\ run' = [NoRun EXCEPT !.impl = "parallel", !.force = force,
                                       !.tphase = [d \in todo |-> "queued"],
                                       !.completed_modules = completed]
               /\ last' = [Idle EXCEPT !.op = "start", !.stage = "analyze",
                                       !.force = force, !.outcome = "parallel",
                                       !.processed = {"analyze"} \X todo]
    /\ UNCHANGED <<tree, files, modulesJson, pstate, checkpoint, manifest, clock, edits, parser, index>>

\* _analyze_module_worker in a pool process: no source files (skipped), an
\* exception (error), or the output file is opened for writing
WorkerRun(d) ==
    /\ run.impl = "parallel"
    /\ d \in Tasks(run) /\ run.tphase[d] = "queued"
    /\ Cardinality(Active(run)) < NumWorkers
    /\ \E oc \in {"writing", "skipped", "error"} :
        /\ run' = [run EXCEPT !.tphase[d] = oc]
        /\ files' = IF oc = "writing" THEN files \cup AnalyzeWrites({d}) ELSE files
    /\ last' = StageReport("worker", "running", {<<"analyze", d>>})
    /\ UNCHANGED <<tree, modulesJson, pstate, checkpoint, manifest, clock, edits, parser, index>>

\* the worker has dumped the code graph and returns its success result
WorkerReturn(d) ==
    /\ run.impl = "parallel"
    /\ d \in Tasks(run) /\ run.tphase[d] = "writing"
    /\ run' = [run EXCEPT !.tphase[d] = "success"]
    /\ last' = StageReport("worker", "returned", {<<"analyze", d>>})
    /\ UNCHANGED <<tree, files, modulesJson, pstate, checkpoint, manifest, clock, edits, parser, index>>

\* one iteration of "for future in as_completed(...)": a success is counted
\* and checkpointed, an error is put on the failure list
Collect(d) ==
    /\ run.impl = "parallel"
    /\ d \in Returned(run)
    /\ LET status == run.tphase[d] IN
        /\ run' = IF status = "error"
                  THEN on_module_error([run EXCEPT !.tphase[d] = "collected"], d)
                  ELSE [run EXCEPT !.tphase[d] = "collected",
                                   !.success = IF status = "success" THEN @ \cup {d} ELSE @]
        /\ IF status = "success"
           THEN /\ checkpoint' = save_completed(load(files, checkpoint), DirName(d))
                /\ files' = files \cup {CheckpointPath}
           ELSE UNCHANGED <<checkpoint, files>>
        /\ last' = StageReport("collect", status, {<<"analyze", d>>})
    /\ UNCHANGED <<tree, modulesJson, pstate, manifest, clock, edits, parser, index>>

\* AnalyzeStage.run as run_stage starts it (skipped when summary.json exists
\* and the run is not forced): the loop over all discovered modules begins
AStartSerial(force) ==
    /\ run.impl = "none"
    /\ ModulesJsonPath \in files
    /\ ~(is_completed("analyze", files) /\ ~force)
    /\ run' = [NoRun EXCEPT !.impl = "serial", !.force = force,
                            !.order = modulesJson, !.idx = 1,
                            !.tphase = [d \in Range(modulesJson) |-> "queued"]]
    /\ last' = [Idle EXCEPT !.op = "start", !.stage = "analyze", !.force = force,
                            !.outcome = "serial",
                            !.processed = {"analyze"} \X Range(modulesJson)]
    /\ UNCHANGED <<tree, files, modulesJson, pstate, checkpoint, manifest, clock, edits, parser, index>>

\* one iteration of the loop of AnalyzeStage.run
SerialStep ==
    /\ run.impl = "serial"
    /\ run.idx <= Len(run.order)
    /\ LET d == run.order[run.idx] IN
       \E oc \in {"success", "skipped", "error"} :
        /\ run' = IF oc = "error"
                  THEN on_module_error([run EXCEPT !.tphase[d] = "collected",
                                                   !.idx = @ + 1], d)
                  ELSE [run EXCEPT !.tphase[d] = "collected", !.idx = @ + 1,
                                   !.success = IF oc = "success" THEN @ \cup {d} ELSE @]
        /\ files' = IF oc = "success" THEN files \cup AnalyzeWrites({d}) ELSE files
        /\ last' = StageReport("collect", oc, {<<"analyze", d>>})
    /\ UNCHANGED <<tree, modulesJson, pstate, checkpoint, manifest, clock, edits, parser, index>>

\* every task is done: the summary is saved and the run returns
AFinish ==
    /\ run.impl \in {"serial", "parallel"}
    /\ \A t \in Tasks(run) : run.tphase[t] = "collected"
    /\ files' = files \cup {KBDir, AnalyzeSummary}
    /\ run' = NoRun
    /\ last' = [StageReport("finish", "ok", {"analyze"} \X run.success)
                   EXCEPT !.summary = analyze_summary(run, modulesJson)]
    /\ UNCHANGED <<tree, modulesJson, pstate, checkpoint, manifest, clock, edits, parser, index>>

\* the run is interrupted (the process is killed): what is on disk stays
ACrash ==
    /\ run.impl \in {"serial", "parallel"}
    /\ run' = NoRun
    /\ last' = StageReport("crash", "interrupted", {"analyze"} \X run.success)
    /\ UNCHANGED <<tree, files, modulesJson, pstate, checkpoint, manifest, clock, edits, parser, index>>

AnalyzeTree == [d \in {1, 2, Len(Names) + 1} |-> 1]

InitAnalyze ==
    /\ tree = AnalyzeTree
    /\ files = {KBDir, ModulesJsonPath}
    /\ modulesJson \in DiscoverModules
    /\ pstate = EmptyFn
    /\ checkpoint = <<>>
    /\ manifest = NoManifest
    /\ clock = 0
    /\ edits = 0
    /\ run = NoRun
    /\ parser = NoParser
    /\ index = NoIndex
    /\ last = Idle

NextAnalyze ==
    \/ \E force \in BOOLEAN : AStartParallel(force)
    \/ \E d \in Dirs : WorkerRun(d)
    \/ \E d \in Dirs : WorkerReturn(d)
    \/ \E d \in Dirs : Collect(d)
    \/ \E force \in BOOLEAN : AStartSerial(force)
    \/ SerialStep
    \/ AFinish
    \/ ACrash

SpecAnalyze == InitAnalyze /\ [][NextAnalyze]_vars

\* ------------------------------------------------------------ extraction
ExtractReport(op, outcome, processed) ==
    [op |-> op, stage |-> "extract", force |-> run.force,
     outcome |-> outcome, processed |-> processed, diff |-> NoDiff,
     summary |-> NoSummary]

\* the summary ExtractStage._run_serial and ParallelExtractStage.run save and
\* return; the worker pool counts every returned result that is not a failure
extract_summary(r, modules) ==
    [total_modules |-> Len(modules),
     success_count |-> IF r.impl = "extract_serial" THEN Cardinality(r.success)
                       ELSE Cardinality(DOMAIN r.tphase) - Len(r.failed_modules),
     failed_count |-> Len(r.failed_modules),
     failed_modules |-> r.failed_modules]

\* ExtractStage.run as run_stage starts it: the serial loop begins, or the
\* tasks are submitted to the pool of ParallelExtractStage
EStart(force, par) ==
    /\ run.impl = "none"
    /\ ModulesJsonPath \in files
    /\ ~(is_completed("extract", files) /\ ~force)
    /\ run' = [NoRun EXCEPT !.impl = IF par > 1 THEN "extract_parallel"
                                     ELSE "extract_serial",
                            !.force = force,
                            !.order = IF par > 1 THEN <<>> ELSE modulesJson,
                            !.idx = IF par > 1 THEN 0 ELSE 1,
                            !.tphase = [d \in Range(modulesJson) |-> "queued"]]
    /\ last' = [Idle EXCEPT !.op = "start", !.stage = "extract", !.force = force,
                            !.outcome = IF par > 1 THEN "parallel" ELSE "serial",
                            !.processed = {"extract"} \X Range(modulesJson)]
    /\ UNCHANGED <<tree, files, modulesJson, pstate, checkpoint, manifest, clock, edits, parser, index>>

\* one iteration of the loop of ExtractStage._run_serial
ESerialStep ==
    /\ run.impl = "extract_serial"
    /\ run.idx <= Len(run.order)
    /\ LET d == run.order[run.idx] IN
       \E oc \in {"success", "error"} :
        /\ run' = IF oc = "error"
                  THEN on_module_error([run EXCEPT !.tphase[d] = "collected",
                                                   !.idx = @ + 1], d)
                  ELSE [run EXCEPT !.tphase[d] = "collected", !.idx = @ + 1,
                                   !.success = @ \cup {d}]
        /\ files' = IF oc = "success" THEN files \cup ExtractWrites({d}, 1) ELSE files
        /\ last' = ExtractReport("collect", oc, {<<"extract", d>>})
    /\ UNCHANGED <<tree, modulesJson, pstate, checkpoint, manifest, clock, edits, parser, index>>

\* _extract_module_worker in a pool process
EWorker(d) ==
    /\ run.impl = "extract_parallel"
    /\ d \in Tasks(run) /\ run.tphase[d] = "queued"
    /\ \E oc \in {"success", "error"} :
        /\ run' = [run EXCEPT !.tphase[d] = oc]
        /\ files' = IF oc = "success" THEN files \cup ExtractWrites({d}, 2) ELSE files
    /\ last' = ExtractReport("worker", "returned", {<<"extract", d>>})
    /\ UNCHANGED <<tree, modulesJson, pstate, checkpoint, manifest, clock, edits, parser, index>>

\* one iteration of "for future in as_completed(...)" of ParallelExtractStage.run
ECollect(d) ==
    /\ run.impl = "extract_parallel"
    /\ d \in Returned(run)
    /\ LET status == run.tphase[d] IN
        /\ run' = IF status = "error"
                  THEN on_module_error([run EXCEPT !.tphase[d] = "collected"], d)
                  ELSE [run EXCEPT !.tphase[d] = "collected", !.success = @ \cup {d}]
        /\ last' = ExtractReport("collect", status, {<<"extract", d>>})
    /\ UNCHANGED <<tree, files, modulesJson, pstate, checkpoint, manifest, clock, edits, parser, index>>

\* every module is done: the summary is saved and the run returns
EFinish ==
    /\ run.impl \in {"extract_serial", "extract_parallel"}
    /\ \A t \in Tasks(run) : run.tphase[t] = "collected"
    /\ files' = files \cup {KBDir, ExtractSummary}
    /\ run' = NoRun
    /\ last' = [ExtractReport("finish", "ok", {"extract"} \X run.success)
                   EXCEPT !.summary = extract_summary(run, modulesJson)]
    /\ UNCHANGED <<tree, modulesJson, pstate, checkpoint, manifest, clock, edits, parser, index>>

\* one module more than the failure list of an analysis summary keeps
SerialTree == [d \in 1..(FailedCap + 1) |-> 1]

\* a stage is run step by step more than once for at most this many modules
MaxPoolTasks == 3

InitStages ==
    /\ tree \in {AnalyzeTree, SerialTree}
    /\ files = {KBDir, ModulesJsonPath}
    /\ modulesJson = CHOOSE ml \in DiscoverModules : TRUE
    /\ pstate = EmptyFn
    /\ checkpoint = <<>>
    /\ manifest = NoManifest
    /\ clock = 0
    /\ edits = 0
    /\ run = NoRun
    /\ parser = NoParser
    /\ index = NoIndex
    /\ last = Idle

\* a tree of more than MaxPoolTasks modules is analysed once, serially
NextStages ==
    \/ \E force \in BOOLEAN, par \in Parallels :
          Len(modulesJson) <= MaxPoolTasks /\ EStart(force, par)
    \/ ESerialStep
    \/ \E d \in DOMAIN tree : EWorker(d)
    \/ \E d \in DOMAIN tree : ECollect(d)
    \/ EFinish
    \/ \E force \in BOOLEAN : Len(modulesJson) <= MaxPoolTasks /\ AStartParallel(force)
    \/ \E d \in DOMAIN tree : WorkerRun(d)
    \/ \E d \in DOMAIN tree : WorkerReturn(d)
    \/ \E d \in DOMAIN tree : Collect(d)
    \/ \E force \in BOOLEAN :
          (Len(modulesJson) <= MaxPoolTasks \/ last = Idle) /\ AStartSerial(force)
    \/ SerialStep
    \/ AFinish

SpecStages == InitStages /\ [][NextStages]_vars

\* ---------------------------------------------------------------- build
\* the build run step by step: graph tasks, the global index write
\* (global_index.pkl and index.db) and the fast index write
\* (class_index.db and function_index.db)
Running(r) == {t \in Tasks(r) : r.tphase[t] = "running"}

BuildReport(op, outcome, processed) ==
    [op |-> op, stage |-> "build", force |-> run.force,
     outcome |-> outcome, processed |-> processed, diff |-> NoDiff,
     summary |-> NoSummary]

\* the pool is left without waiting for its tasks
GraphsJoined_NoWait(r) == TRUE

\* the loop over the graph tasks is over: the "with ThreadPoolExecutor" block
\* has been left (worker pool), the for loop has ended (serial)
GraphsJoined(r) == \A t \in Tasks(r) : r.tphase[t] = "done"

\* BuildStage.run up to the first write of an index, or up to the submission
\* of the graph tasks
BStart(force, par) ==
    /\ run.impl = "none"
    /\ ~(is_completed("build", files) /\ ~force)
    /\ LET tasks == [n \in AnalyzedNames(files) |-> "queued"] IN
       IF par > 1
       THEN /\ files' = files \cup {KBDir, ConfigYaml, GraphsDir}
            /\ IF ~AnalyzeDirExists(files)
               THEN /\ run' = run
                    /\ last' = Report("build", force, par, "error", {})
               ELSE /\ run' = [NoRun EXCEPT !.impl = "build_parallel", !.force = force,
                                            !.phase = "graphs", !.tphase = tasks]
                    /\ last' = [Idle EXCEPT !.op = "start", !.stage = "build",
                                            !.force = force, !.outcome = "parallel"]
       ELSE /\ files' = files \cup {KBDir, ConfigYaml}
            /\ IF ModulesJsonPath \notin files
               THEN /\ run' = run
                    /\ last' = Report("build", force, par, "error", {})
               ELSE /\ run' = [NoRun EXCEPT !.impl = "build_serial", !.force = force,
                                            !.phase = "global_index", !.tphase = tasks]
                    /\ last' = [Idle EXCEPT !.op = "start", !.stage = "build",
                                            !.force = force, !.outcome = "serial"]
    /\ UNCHANGED <<tree, modulesJson, pstate, checkpoint, manifest, clock, edits, parser, index>>

\* _build_global_index has saved the index and synchronised it to index.db
GlobalIndexWritten ==
    /\ run.phase = "global_index"
    /\ files' = IF ModulesJsonPath \in files THEN files \cup GlobalIndexWrites ELSE files
    /\ run' = [run EXCEPT !.phase = IF run.impl = "build_serial" THEN "graphs"
                                    ELSE "fast_indices"]
    /\ last' = BuildReport("index_written", "global_index", {})
    /\ UNCHANGED <<tree, modulesJson, pstate, checkpoint, manifest, clock, edits, parser, index>>

\* a graph task starts: a pool thread, or the next iteration of the serial loop
GraphRun(n) ==
    /\ run.phase = "graphs"
    /\ n \in Tasks(run) /\ run.tphase[n] = "queued"
    /\ Cardinality(Running(run)) < (IF run.impl = "build_serial" THEN 1 ELSE NumWorkers)
    /\ run' = [run EXCEPT !.tphase[n] = "running"]
    /\ last' = BuildReport("graph", "running", {<<"build", n>>})
    /\ UNCHANGED <<tree, files, modulesJson, pstate, checkpoint, manifest, clock, edits, parser, index>>

\* a graph task ends: the module graph is saved unless the task failed
GraphDone(n) ==
    /\ n \in Running(run)
    /\ \E ok \in BOOLEAN :
        /\ files' = IF ok THEN files \cup {GraphsDir} \cup GraphWrites({n}) ELSE files
        /\ run' = [run EXCEPT !.tphase[n] = "done",
                              !.success = IF ok THEN @ \cup {n} ELSE @,
                              !.failed = IF ok THEN @ ELSE @ \cup {n}]
        /\ last' = BuildReport("graph", IF ok THEN "built" ELSE "failed", {<<"build", n>>})
    /\ UNCHANGED <<tree, modulesJson, pstate, checkpoint, manifest, clock, edits, parser, index>>

\* the build goes on after the graph tasks: to the global index (worker pool)
\* or to the fast indices (serial)
AfterGraphs ==
    /\ run.phase = "graphs"
    /\ GraphsJoined(run)
    /\ run' = [run EXCEPT !.phase = IF run.impl = "build_serial" THEN "fast_indices"
                                    ELSE "global_index"]
    /\ last' = BuildReport("joined", "graphs", {})
    /\ UNCHANGED <<tree, files, modulesJson, pstate, checkpoint, manifest, clock, edits, parser, index>>

\* _build_fast_indices has filled the class and function databases; the
\* serial build then saves its summary
FastIndicesWritten ==
    /\ run.phase = "fast_indices"
    /\ files' = files \cup FastIndexWrites
                  \cup (IF run.impl = "build_serial" THEN {BuildSummary} ELSE {})
    /\ run' = NoRun
    /\ last' = BuildReport("finish", "ok", {"build"} \X run.success)
    /\ UNCHANGED <<tree, modulesJson, pstate, checkpoint, manifest, clock, edits, parser, index>>

InitBuild ==
    /\ tree = [d \in 1..3 |-> 1]
    /\ \E disc \in BOOLEAN, analyzed \in SUBSET (DOMAIN tree) :
        /\ files = (IF disc THEN {KBDir, ModulesJsonPath} ELSE {})
                     \cup AnalyzeWrites(analyzed)
        /\ modulesJson \in (IF disc THEN DiscoverModules ELSE {<<>>})
    /\ pstate = EmptyFn
    /\ checkpoint = <<>>
    /\ manifest = NoManifest
    /\ clock = 0
    /\ edits = 0
    /\ run = NoRun
    /\ parser = NoParser
    /\ index = NoIndex
    /\ last = Idle

NextBuild ==
    \/ \E force \in BOOLEAN, par \in Parallels : BStart(force, par)
    \/ GlobalIndexWritten
    \/ \E n \in NameSet : GraphRun(n)
    \/ \E n \in NameSet : GraphDone(n)
    \/ AfterGraphs
    \/ FastIndicesWritten

SpecBuild == InitBuild /\ [][NextBuild]_vars

\* ------------------------------------------------------ module analysis
\* a source file: readable or not, and parsed without or with an exception
FileKinds == {"good", "parse_error", "unreadable"}

\* the source files of a module: up to MaxFiles files, numbered in scan order
SourceFiles ==
    UNION {[1..n -> FileKinds] : n \in 1..MaxFiles}

\* the record of one kind ("classes", "functions", "enums") file i declares
RecordOf(what, i) == [kind |-> what, file |-> i, line |-> 1]

NoRecords == [classes |-> <<>>, functions |-> <<>>, enums |-> <<>>]

\* parse_content whose except branch returns what was parsed before the
\* exception (the classes)
parse_content_partial(kinds, i) ==
    IF kinds[i] = "parse_error"
    THEN [NoRecords EXCEPT !.classes = <<RecordOf("classes", i)>>]
    ELSE [classes |-> <<RecordOf("classes", i)>>,
          functions |-> <<RecordOf("functions", i)>>,
          enums |-> <<RecordOf("enums", i)>>]

\* CppParser.parse_content: the three record maps of the file, or three
\* empty maps when parsing raised an exception
parse_content(kinds, i) ==
    IF kinds[i] = "parse_error"
    THEN NoRecords
    ELSE [classes |-> <<RecordOf("classes", i)>>,
          functions |-> <<RecordOf("functions", i)>>,
          enums |-> <<RecordOf("enums", i)>>]

\* _analyze_module (serial) or _analyze_module_worker starts on a module
StartModule(impl) ==
    /\ parser.op \in {"none", "code_graph"}
    /\ \E kinds \in SourceFiles :
        parser' = [op |-> "analyze_module", impl |-> impl, kinds |-> kinds, idx |-> 1,
                   classes |-> <<>>, functions |-> <<>>, enums |-> <<>>,
                   failed_files |-> <<>>]
    /\ UNCHANGED <<tree, files, modulesJson, pstate, checkpoint, manifest, clock, edits,
                   run, index, last>>

\* one iteration of the file loop: the file is read and parsed once per
\* record kind (the serial stage does not extract enums); an exception (the
\* file cannot be read) puts the file on failed_files
AnalyzeFile ==
    /\ parser.op = "analyze_module"
    /\ parser.idx <= Len(parser.kinds)
    /\ LET i == parser.idx
           r == parse_content(parser.kinds, i) IN
       parser' = IF parser.kinds[i] = "unreadable"
                 THEN [parser EXCEPT !.idx = i + 1, !.failed_files = Append(@, i)]
                 ELSE [parser EXCEPT !.idx = i + 1,
                                     !.classes = @ \o r.classes,
                                     !.functions = @ \o r.functions,
                                     !.enums = IF parser.impl = "worker"
                                               THEN @ \o r.enums ELSE @]
    /\ UNCHANGED <<tree, files, modulesJson, pstate, checkpoint, manifest, clock, edits,
                   run, index, last>>

\* the file loop has ended: the code graph payload is built
FinishModule ==
    /\ parser.op = "analyze_module"
    /\ parser.idx > Len(parser.kinds)
    /\ parser' = [parser EXCEPT !.op = "code_graph"]
    /\ UNCHANGED <<tree, files, modulesJson, pstate, checkpoint, manifest, clock, edits,
                   run, index, last>>

InitModule ==
    /\ tree = EmptyFn
    /\ files = {}
    /\ modulesJson = <<>>
    /\ pstate = EmptyFn
    /\ checkpoint = <<>>
    /\ manifest = NoManifest
    /\ clock = 0
    /\ edits = 0
    /\ run = NoRun
    /\ parser = NoParser
    /\ index = NoIndex
    /\ last = Idle

NextModule ==
    \/ \E impl \in {"serial", "worker"} : StartModule(impl)
    \/ AnalyzeFile
    \/ FinishModule

SpecModule == InitModule /\ [][NextModule]_vars

\* ------------------------------------------------------------ global index
\* the modules of the small tree the global index is built for, and the
\* names a declaration file may list as dependencies ("C" is no module)
IndexNames == {"A", "B"}
DepNames == {"A", "B", "C"}

\* the "dependencies" object of dependencies.json as BuildCsParser.parse_content
\* returns it: the public dependency list under the key "public"
DepFile(deps) == [k \in {"public"} |-> deps]

\* dict.get(key, [])
Get(d, key) == IF key \in DOMAIN d THEN d[key] ELSE {}

\* the 'dependencies' entry BuildStage._build_global_index gives a module
serial_dependencies(d) == Get(d, "PublicDependencyModuleNames")

\* the 'dependencies' entry ParallelBuildStage._build_global_index gives a module
parallel_dependencies(d) ==
    IF Get(d, "public") # {} THEN Get(d, "public")
    ELSE Get(d, "PublicDependencyModuleNames")

NoGraph == [built |-> FALSE, nodes |-> {}, edges |-> {}]

\* GlobalIndex.build_dependency_graph: the graph loaded with the index is
\* returned as it is; otherwise a node per module and an edge per dependency
\* that is a module of the index
build_dependency_graph(idx, graph) ==
    IF graph.built THEN graph
    ELSE [built |-> TRUE, nodes |-> DOMAIN idx,
          edges |-> {e \in (DOMAIN idx) \X (DOMAIN idx) : e[2] \in idx[e[1]]}]

\* GlobalIndex._load and add_module for every discovered module
add_modules(idx, declared, par) ==
    [n \in DOMAIN idx \cup DOMAIN declared |->
        IF n \in DOMAIN declared
        THEN IF par > 1 THEN parallel_dependencies(DepFile(declared[n]))
             ELSE serial_dependencies(DepFile(declared[n]))
        ELSE idx[n]]

\* _build_global_index: load, add_module, build_dependency_graph, save
BuildGlobalIndex(par) ==
    /\ index.op # "none"
    /\ LET idx == add_modules(index.index, index.declared, par) IN
       index' = [index EXCEPT !.op = "build_global_index", !.par = par,
                              !.index = idx,
                              !.graph = build_dependency_graph(idx, index.graph)]
    /\ UNCHANGED <<tree, files, modulesJson, pstate, checkpoint, manifest, clock, edits,
                   run, parser, last>>

\* a declaration file is edited and Extraction is run again
Redeclare ==
    /\ index.op # "none"
    /\ edits < MaxEdits
    /\ edits' = edits + 1
    /\ \E n \in IndexNames, deps \in SUBSET DepNames :
        index' = [index EXCEPT !.op = "extract",
                               !.declared = [m \in DOMAIN @ \cup {n} |->
                                               IF m = n THEN deps ELSE @[m]]]
    /\ UNCHANGED <<tree, files, modulesJson, pstate, checkpoint, manifest, clock,
                   run, parser, last>>

\* clean_stage("build") does not remove KnowledgeBase/global_index; the
\* directory is removed by hand
RemoveGlobalIndex ==
    /\ index.op = "build_global_index"
    /\ index' = [index EXCEPT !.op = "removed", !.index = EmptyFn, !.graph = NoGraph]
    /\ UNCHANGED <<tree, files, modulesJson, pstate, checkpoint, manifest, clock, edits,
                   run, parser, last>>

InitIndex ==
    /\ tree = EmptyFn
    /\ files = {}
    /\ modulesJson = <<>>
    /\ pstate = EmptyFn
    /\ checkpoint = <<>>
    /\ manifest = NoManifest
    /\ clock = 0
    /\ edits = 0
    /\ run = NoRun
    /\ parser = NoParser
    /\ \E mods \in SUBSET IndexNames : \E declared \in [mods -> SUBSET DepNames] :
        index = [op |-> "extract", par |-> 1, declared |-> declared,
                 index |-> EmptyFn, graph |-> NoGraph]
    /\ last = Idle

NextIndex ==
    \/ \E par \in Parallels : BuildGlobalIndex(par)
    \/ Redeclare
    \/ RemoveGlobalIndex

SpecIndex == InitIndex /\ [][NextIndex]_vars

\* --------------------------------------------------------- flattened indices
\* SQL NULL, and Python's None bound to a statement parameter
None == "None"

\* the columns of the UNIQUE constraint of each table
ClassKey == {"name", "module", "file_path", "line_number"}
FunctionKey == {"name", "module", "class_name", "file_path", "line_number"}
EnumKey == {"name", "module", "file_path", "line_number"}
KeyOf(kind) ==
    CASE kind = "class" -> ClassKey
      [] kind = "function" -> FunctionKey
      [] kind = "enum" -> EnumKey

\* a UNIQUE constraint is violated by an existing row that is equal to the new
\* one on every column of the constraint; NULL is equal to nothing
TextColumns == {"class_name", "file_path"}
IsNull(row, k) == k \in TextColumns /\ row[k] = None
conflicts(row, new, key) == \A k \in key : ~IsNull(row, k) /\ row[k] = new[k]

\* INSERT OR REPLACE: the conflicting rows are deleted, the new row is inserted
insert_or_replace(table, new, key) ==
    [r \in {x \in DOMAIN table : ~conflicts(x, new, key)} |-> table[r]] (+) SetToBag({new})

\* cursor.executemany: the statement once per entry, in order
RECURSIVE executemany(_, _, _)
executemany(table, batch, key) ==
    IF batch = <<>> THEN table
    ELSE executemany(insert_or_replace(table, Head(batch), key), Tail(batch), key)

\* the largest table, and the longest batch, of the small index
MaxRows == 3
MaxBatch == 2

\* the entries handed to add_class / add_enum: no class_name column
\* (flag stands for the columns outside the constraint)
Entries(kind) ==
    IF kind = "function"
    THEN [name : {"f"}, module : {"A", "B"}, class_name : {None, "K"},
          file_path : {"a.h"}, line_number : {1}, flag : {FALSE}]
    ELSE [name : {"f"}, module : {"A", "B"}, class_name : {""},
          file_path : {"a.h"}, line_number : {1}, flag : BOOLEAN]

Batches(kind) == UNION {[1..n -> Entries(kind)] : n \in 1..MaxBatch}

\* ClassIndex.add_class, FunctionIndex.add_function, EnumIndex.add_enum
add_single(kind) ==
    /\ index.op # "none"
    /\ "kind" \in DOMAIN index
    /\ index.kind = kind
    /\ \E e \in Entries(kind) :
        LET t == insert_or_replace(index.table, e, KeyOf(kind)) IN
        /\ BagCardinality(t) <= MaxRows
        /\ index' = [index EXCEPT !.op = "add", !.args = <<e>>, !.table = t]
    /\ UNCHANGED <<tree, files, modulesJson, pstate, checkpoint, manifest, clock, edits,
                   run, parser, last>>

\* ClassIndex.add_classes_batch, FunctionIndex.add_functions_batch,
\* EnumIndex.add_enums_batch
add_batch(kind) ==
    /\ index.op # "none"
    /\ "kind" \in DOMAIN index
    /\ index.kind = kind
    /\ \E b \in Batches(kind) :
        LET t == executemany(index.table, b, KeyOf(kind)) IN
        /\ BagCardinality(t) <= MaxRows
        /\ index' = [index EXCEPT !.op = "add_batch", !.args = b, !.table = t]
    /\ UNCHANGED <<tree, files, modulesJson, pstate, checkpoint, manifest, clock, edits,
                   run, parser, last>>

InitTables ==
    /\ tree = EmptyFn
    /\ files = {}
    /\ modulesJson = <<>>
    /\ pstate = EmptyFn
    /\ checkpoint = <<>>
    /\ manifest = NoManifest
    /\ clock = 0
    /\ edits = 0
    /\ run = NoRun
    /\ parser = NoParser
    /\ \E kind \in {"class", "function", "enum"} :
        index = [op |-> "create_schema", kind |-> kind, args |-> <<>>, table |-> EmptyBag]
    /\ last = Idle

NextTables ==
    \/ \E kind \in {"class", "function", "enum"} : add_single(kind)
    \/ \E kind \in {"class", "function", "enum"} : add_batch(kind)

SpecTables == InitTables /\ [][NextTables]_vars

\* ------------------------------------------------- building the fast indices
\* the longest record list of a code graph
MaxRecords == 2

\* a record of code_graph.json as AnalyzeStage._analyze_module collects it
\* from extract_classes and extract_functions (ClassInfo.to_dict,
\* FunctionInfo.to_dict of a free function)
GraphRecords ==
    [kind : {"class", "function"}, name : {"f", "g"},
     file_path : {"a.h", "a.cpp"}, line_number : {1, 2}]

CodeGraphs(n) == UNION {[1..k -> GraphRecords] : k \in 0..n}

\* add_node(f"class_{name}") / add_node(f"function_{name}"): a node that is
\* already in the graph has its attributes overwritten
RECURSIVE create_networkx_graph(_, _)
create_networkx_graph(records, graph) ==
    IF records = <<>> THEN graph
    ELSE LET rec == Head(records)
             id == <<rec.kind, rec.name>>
         IN create_networkx_graph(Tail(records),
                [n \in DOMAIN graph \cup {id} |-> IF n = id THEN rec ELSE graph[n]])

\* _build_module_graphs: a pickled graph per code_graph.json
build_module_graphs ==
    /\ index.op = "analyze"
    /\ index' = [index EXCEPT !.op = "build_module_graphs",
                              !.graphs = [mod \in DOMAIN index.code_graphs |->
                                  create_networkx_graph(index.code_graphs[mod], EmptyFn)]]
    /\ UNCHANGED <<tree, files, modulesJson, pstate, checkpoint, manifest, clock, edits,
                   run, parser, last>>

\* class_info / func_info of a node of the graph of a module
RowOf(mod, node) ==
    [name |-> node.name, module |-> mod,
     class_name |-> IF node.kind = "function" THEN None ELSE "",
     file_path |-> node.file_path, line_number |-> node.line_number, flag |-> FALSE]

\* the members of a set in the order an iteration yields them
RECURSIVE SeqOf(_)
SeqOf(S) ==
    IF S = {} THEN <<>>
    ELSE LET x == CHOOSE y \in S : TRUE IN <<x>> \o SeqOf(S \ {x})

\* the batch _build_fast_indices collects for one table, module by module
RECURSIVE fast_index_batch(_, _, _)
fast_index_batch(graphs, mods, kind) ==
    IF mods = <<>> THEN <<>>
    ELSE LET g == graphs[Head(mods)]
             ids == SeqOf({id \in DOMAIN g : g[id].kind = kind})
         IN [k \in 1..Len(ids) |-> RowOf(Head(mods), g[ids[k]])]
            \o fast_index_batch(graphs, Tail(mods), kind)

\* _build_fast_indices: ClassIndex and FunctionIndex are opened (their
\* database files created) and filled from the pickled graphs; no other
\* index is opened
build_fast_indices ==
    /\ index.op = "build_module_graphs"
    /\ LET mods == SeqOf(DOMAIN index.graphs) IN
       index' = [index EXCEPT
            !.op = "build_fast_indices",
            !.created = {"class", "function"},
            !.class_index = executemany(EmptyBag,
                                fast_index_batch(index.graphs, mods, "class"), ClassKey),
            !.function_index = executemany(EmptyBag,
                                fast_index_batch(index.graphs, mods, "function"), FunctionKey)]
    /\ UNCHANGED <<tree, files, modulesJson, pstate, checkpoint, manifest, clock, edits,
                   run, parser, last>>

\* query_by_name of ClassIndex / FunctionIndex / EnumIndex
query_by_name(table, name) == {r \in DOMAIN table : r.name = name}

InitFast ==
    /\ tree = EmptyFn
    /\ files = {}
    /\ modulesJson = <<>>
    /\ pstate = EmptyFn
    /\ checkpoint = <<>>
    /\ manifest = NoManifest
    /\ clock = 0
    /\ edits = 0
    /\ run = NoRun
    /\ parser = NoParser
    /\ \E a \in CodeGraphs(MaxRecords), b \in CodeGraphs(1) :
        index = [op |-> "analyze",
                 code_graphs |-> [mod \in {"A", "B"} |-> IF mod = "A" THEN a ELSE b],
                 graphs |-> EmptyFn,
                 created |-> {},
                 class_index |-> EmptyBag, function_index |-> EmptyBag, enum_index |-> EmptyBag]
    /\ last = Idle

NextFast ==
    \/ build_module_graphs
    \/ build_fast_indices

SpecFast == InitFast /\ [][NextFast]_vars

\* ---------------------------------------------------------- comment stripping
\* the longest source text, as a sequence of characters
MaxContent == 6

\* the characters of the small source texts: comment punctuation, code, blank
Chars == {"/", "*", "x", " ", "\n"}

Contents == UNION {[1..n -> Chars] : n \in 0..MaxContent}

\* content.split('\n')
RECURSIVE SplitLines(_, _)
SplitLines(content, cur) ==
    IF content = <<>> THEN <<cur>>
    ELSE IF Head(content) = "\n" THEN <<cur>> \o SplitLines(Tail(content), <<>>)
    ELSE SplitLines(Tail(content), Append(cur, Head(content)))

\* line[idx:idx + 2] == a + b (idx counts from 1)
At2(line, idx, a, b) == idx + 1 <= Len(line) /\ line[idx] = a /\ line[idx + 1] = b

\* line.find('*/', start): the index of the first terminator, 0 for none
RECURSIVE Find(_, _)
Find(line, start) ==
    IF start + 1 > Len(line) THEN 0
    ELSE IF At2(line, start, "*", "/") THEN start
    ELSE Find(line, start + 1)

\* re.sub(r'[ \t]+', ' ', result)
RECURSIVE Collapse(_)
Collapse(t) ==
    IF Len(t) < 2 THEN t
    ELSE IF t[1] = " " /\ t[2] = " " THEN Collapse(Tail(t))
    ELSE <<t[1]>> \o Collapse(Tail(t))

\* str.rstrip() of a text of these characters
RECURSIVE RStrip(_)
RStrip(t) ==
    IF t # <<>> /\ t[Len(t)] = " " THEN RStrip(SubSeq(t, 1, Len(t) - 1)) ELSE t

Normalize(t) == RStrip(Collapse(t))

\* the while loop over one line: the text kept and whether the line ends
\* inside a block comment
RECURSIVE ScanLine(_, _, _)
ScanLine(line, idx, result) ==
    IF idx > Len(line) THEN [result |-> result, in_block |-> FALSE]
    ELSE IF At2(line, idx, "/", "/") THEN [result |-> result, in_block |-> FALSE]
    ELSE IF At2(line, idx, "/", "*")
         THEN LET end_idx == Find(line, idx + 2) IN
              IF end_idx # 0 THEN ScanLine(line, end_idx + 2, result)
              ELSE [result |-> result, in_block |-> TRUE]
    ELSE ScanLine(line, idx + 1, Append(result, line[idx]))

\* the for loop over the lines
RECURSIVE preprocess_lines(_, _)
preprocess_lines(lines, in_block) ==
    IF lines = <<>> THEN <<>>
    ELSE LET line == Head(lines)
             end_idx == Find(line, 1)
         IN IF in_block /\ end_idx = 0
            THEN <<<<>>>> \o preprocess_lines(Tail(lines), TRUE)
            ELSE LET rest == IF in_block THEN SubSeq(line, end_idx + 2, Len(line)) ELSE line
                     scan == ScanLine(rest, 1, <<>>)
                 IN <<Normalize(scan.result)>> \o preprocess_lines(Tail(lines), scan.in_block)

\* every line is scanned from the code state: the block state is not
\* carried to the next line
preprocess_content_lines_stateless(content) ==
    LET lines == SplitLines(content, <<>>) IN
    [k \in 1..Len(lines) |-> Normalize(ScanLine(lines[k], 1, <<>>).result)]

\* CppParser._preprocess_content_lines
preprocess_content_lines(content) == preprocess_lines(SplitLines(content, <<>>), FALSE)

\* parse_content hands the text of a file to the preprocessing
Preprocess ==
    /\ parser.op = "content"
    /\ parser' = [parser EXCEPT !.op = "preprocess",
                                !.lines = preprocess_content_lines(parser.content)]
    /\ UNCHANGED <<tree, files, modulesJson, pstate, checkpoint, manifest, clock, edits,
                   run, index, last>>

InitComments ==
    /\ tree = EmptyFn
    /\ files = {}
    /\ modulesJson = <<>>
    /\ pstate = EmptyFn
    /\ checkpoint = <<>>
    /\ manifest = NoManifest
    /\ clock = 0
    /\ edits = 0
    /\ run = NoRun
    /\ \E content \in Contents : parser = [op |-> "content", content |-> content, lines |-> <<>>]
    /\ index = NoIndex
    /\ last = Idle

NextComments == Preprocess

SpecComments == InitComments /\ [][NextComments]_vars

\* ------------------------------------------------------------ macro lines
\* the longest preprocessed text, in lines
MaxLines == 3

\* a preprocessed line by what the patterns of the parser find on it:
\* UCLASS(...) and UENUM(...) with their argument list, and a class or a
\* plain enum declaration
LineKinds == [uclass : BOOLEAN, uenum : BOOLEAN, decl : {"none", "class", "enum"}]

LineTexts == UNION {[1..n -> LineKinds] : n \in 1..MaxLines}

\* the loop of _parse_classes_and_structs: a class record for every line that
\* class_m matches; is_uclass and the specifier map come from the UCLASS
\* match on that line (spec_line is the line whose argument list was parsed,
\* 0 when the map is empty)
parse_classes_and_structs(lines) ==
    {[kind |-> "class", line_number |-> i, is_macro |-> lines[i].uclass,
      spec_line |-> IF lines[i].uclass THEN i ELSE 0] :
        i \in {k \in 1..Len(lines) : lines[k].decl = "class"}}

\* the loop of _parse_enums from line i on: UENUM is matched on line i and the
\* enum declaration on line i or, after a UENUM without one, on line i + 1
RECURSIVE parse_enums(_, _)
parse_enums(lines, i) ==
    IF i > Len(lines) THEN {}
    ELSE LET is_uenum == lines[i].uenum
             here == lines[i].decl = "enum"
             next == ~here /\ is_uenum /\ i + 1 <= Len(lines) /\ lines[i + 1].decl = "enum"
             j == IF next THEN i + 1 ELSE i
         IN (IF here \/ next
             THEN {[kind |-> "enum", line_number |-> j, is_macro |-> is_uenum,
                    spec_line |-> IF is_uenum THEN i ELSE 0]}
             ELSE {})
            \cup parse_enums(lines, j + 1)

\* parse_content: the class pass and the enum pass over the preprocessed lines
ParseDeclarations ==
    /\ parser.op = "lines"
    /\ parser' = [parser EXCEPT !.op = "parse_content",
                                !.classes = parse_classes_and_structs(parser.lines),
                                !.enums = parse_enums(parser.lines, 1)]
    /\ UNCHANGED <<tree, files, modulesJson, pstate, checkpoint, manifest, clock, edits,
                   run, index, last>>

InitMacros ==
    /\ tree = EmptyFn
    /\ files = {}
    /\ modulesJson = <<>>
    /\ pstate = EmptyFn
    /\ checkpoint = <<>>
    /\ manifest = NoManifest
    /\ clock = 0
    /\ edits = 0
    /\ run = NoRun
    /\ \E lines \in LineTexts :
        parser = [op |-> "lines", lines |-> lines, classes |-> {}, enums |-> {}]
    /\ index = NoIndex
    /\ last = Idle

NextMacros == ParseDeclarations

SpecMacros == InitMacros /\ [][NextMacros]_vars

\* ------------------------------------------------------------ list splitting
\* the longest list text, in characters
MaxText == 6

\* the characters of a list text: angle brackets, the comma, a name character
ListChars == {"<", ">", ",", "a"}

ListTexts == UNION {[1..n -> ListChars] : n \in 1..MaxText}

\* re.split(r',', inherit): a part between every two commas
RECURSIVE SplitOnCommas(_, _)
SplitOnCommas(text, cur) ==
    IF text = <<>> THEN <<cur>>
    ELSE IF Head(text) = "," THEN <<cur>> \o SplitOnCommas(Tail(text), <<>>)
    ELSE SplitOnCommas(Tail(text), Append(cur, Head(text)))

\* the parent_classes of _parse_classes_and_structs: the parts of the
\* inheritance list that are not empty
split_inheritance(inherit) ==
    SelectSeq(SplitOnCommas(inherit, <<>>), LAMBDA pc : pc # <<>>)

\* CppParser._split_params: a comma splits at depth 0 only
RECURSIVE split_params_from(_, _, _)
split_params_from(params_str, depth, cur) ==
    IF params_str = <<>> THEN (IF cur # <<>> THEN <<cur>> ELSE <<>>)
    ELSE LET ch == Head(params_str) IN
         IF ch = "<" THEN split_params_from(Tail(params_str), depth + 1, Append(cur, ch))
         ELSE IF ch = ">" THEN split_params_from(Tail(params_str), depth - 1, Append(cur, ch))
         ELSE IF ch = "," /\ depth = 0
              THEN <<cur>> \o split_params_from(Tail(params_str), depth, <<>>)
         ELSE split_params_from(Tail(params_str), depth, Append(cur, ch))

split_params(params_str) == split_params_from(params_str, 0, <<>>)

\* the parser meets the text as the inheritance list of a class and as the
\* parameter list of a function
SplitLists ==
    /\ parser.op = "text"
    /\ parser' = [parser EXCEPT !.op = "split",
                                !.parent_classes = split_inheritance(parser.text),
                                !.parameters = split_params(parser.text)]
    /\ UNCHANGED <<tree, files, modulesJson, pstate, checkpoint, manifest, clock, edits,
                   run, index, last>>

InitLists ==
    /\ tree = EmptyFn
    /\ files = {}
    /\ modulesJson = <<>>
    /\ pstate = EmptyFn
    /\ checkpoint = <<>>
    /\ manifest = NoManifest
    /\ clock = 0
    /\ edits = 0
    /\ run = NoRun
    /\ \E text \in ListTexts :
        parser = [op |-> "text", text |-> text, parent_classes |-> <<>>, parameters |-> <<>>]
    /\ index = NoIndex
    /\ last = Idle

NextLists == SplitLists

SpecLists == InitLists /\ [][NextLists]_vars

\* ------------------------------------------------------ declaration parser
\* the longest declaration file, in statements
MaxStatements == 2

\* the keys of the dictionary BuildCsParser returns
DepTypes == {"public", "private", "dynamic", "weak", "circular"}

\* a statement of a declaration file: <Collection>.AddRange(new string[] {
\* "name" }) ("array") or <Collection>.Add("name") ("single"); commented: the
\* whole statement stands in a comment
Statements ==
    [coll : DepTypes, form : {"array", "single"}, name : {"X", "Y"}, commented : BOOLEAN]

BuildCsTexts == UNION {[1..n -> Statements] : n \in 0..MaxStatements}

\* _extract_module_names: the quoted strings of the matched literal
extract_module_names(st) == {st.name}

\* the names a single-add match appends, and the list it appends them to: the
\* joined pattern has three groups, so len(groups) >= 2 always holds; the list
\* is 'public' for group 1 = 'Public' and 'private' otherwise, and the name is
\* group 2, which is None for a DynamicallyLoadedModuleNames match; the Weak
\* and Circular collections have no single-add pattern
single_add(st, dep_type) ==
    IF st.coll = "public" /\ dep_type = "public" THEN {st.name}
    ELSE IF st.coll = "private" /\ dep_type = "private" THEN {st.name}
    ELSE {}

\* BuildCsParser.parse_content: the patterns are matched against the content
\* as it is read; sorted(set(...)) of each list
buildcs_parse_content(text) ==
    [t \in DepTypes |->
        UNION {IF text[k].form = "array"
               THEN (IF text[k].coll = t THEN extract_module_names(text[k]) ELSE {})
               ELSE single_add(text[k], t) : k \in 1..Len(text)}]

\* BuildCsParser.parse_file on a declaration file
ParseBuildCs ==
    /\ parser.op = "buildcs"
    /\ parser' = [parser EXCEPT !.op = "parse_file",
                                !.dependencies = buildcs_parse_content(parser.text)]
    /\ UNCHANGED <<tree, files, modulesJson, pstate, checkpoint, manifest, clock, edits,
                   run, index, last>>

InitBuildCs ==
    /\ tree = EmptyFn
    /\ files = {}
    /\ modulesJson = <<>>
    /\ pstate = EmptyFn
    /\ checkpoint = <<>>
    /\ manifest = NoManifest
    /\ clock = 0
    /\ edits = 0
    /\ run = NoRun
    /\ \E text \in BuildCsTexts :
        parser = [op |-> "buildcs", text |-> text, dependencies |-> [t \in DepTypes |-> {}]]
    /\ index = NoIndex
    /\ last = Idle

NextBuildCs == ParseBuildCs

SpecBuildCs == InitBuildCs /\ [][NextBuildCs]_vars

\* ------------------------------------------------------- module categories
\* the deepest directory of a declaration file below the scanned tree
MaxSegments == 3

\* directory names of the small trees
Segments == {"Source", "Plugins", "Platforms", "Runtime", "ThirdParty"}

\* the directories of a declaration file relative to the scanned tree; the
\* file M.Build.cs itself is the last segment of its path
RelPaths == UNION {[1..n -> Segments] : n \in 1..MaxSegments}

\* the scanned tree: an engine checkout, or a plugin inside a project
BasePaths == {<<"opt", "UE5", "Engine">>, <<"proj", "Plugins", "MyPlugin">>}

\* '/A/B/' in path_str: the directories A, B in a row (a segment follows B)
HasDirs(path, a, b) ==
    \E k \in 1..(Len(path) - 2) : path[k] = a /\ path[k + 1] = b

\* '/A/' in path_str: a directory A (a segment follows it)
HasDir(path, a) == \E k \in 1..(Len(path) - 1) : path[k] = a

\* re.search(r'[/\\]A[/\\]([^/\\]+)...'): the first A with n segments after it
FirstWith(path, a, n) ==
    LET S == {k \in 1..(Len(path) - n) : path[k] = a} IN
    IF S = {} THEN 0 ELSE CHOOSE k \in S : \A j \in S : k <= j

\* DiscoverStage._infer_category (with _extract_plugin_category and
\* _extract_platform_category) on the absolute path of the file
infer_category(path) ==
    IF HasDirs(path, "Source", "Runtime") THEN <<"Runtime">>
    ELSE IF HasDirs(path, "Source", "Editor") THEN <<"Editor">>
    ELSE IF HasDirs(path, "Source", "Developer") THEN <<"Developer">>
    ELSE IF HasDirs(path, "Source", "Programs") THEN <<"Programs">>
    ELSE IF HasDir(path, "Plugins")
         THEN LET k == FirstWith(path, "Plugins", 2) IN
              IF k # 0 THEN <<"Plugins", path[k + 1], path[k + 2]>>
              ELSE <<"Plugins", "Unknown">>
    ELSE IF HasDir(path, "Platforms")
         THEN LET k == FirstWith(path, "Platforms", 1) IN
              IF k # 0 THEN <<"Platforms", path[k + 1]>>
              ELSE <<"Platforms", "Unknown">>
    ELSE <<"Unknown">>

\* _discover_modules on one declaration file found by rglob
DiscoverModule ==
    /\ parser.op = "rglob"
    /\ parser' = [parser EXCEPT !.op = "discover",
                                !.category = infer_category(parser.base \o parser.rel)]
    /\ UNCHANGED <<tree, files, modulesJson, pstate, checkpoint, manifest, clock, edits,
                   run, index, last>>

InitCategory ==
    /\ tree = EmptyFn
    /\ files = {}
    /\ modulesJson = <<>>
    /\ pstate = EmptyFn
    /\ checkpoint = <<>>
    /\ manifest = NoManifest
    /\ clock = 0
    /\ edits = 0
    /\ run = NoRun
    /\ \E base \in BasePaths, dirs \in RelPaths :
        parser = [op |-> "rglob", base |-> base, rel |-> Append(dirs, "M.Build.cs"),
                  category |-> <<>>]
    /\ index = NoIndex
    /\ last = Idle

NextCategory == DiscoverModule

SpecCategory == InitCategory /\ [][NextCategory]_vars

\* -------------------------------------------------------- loading artifacts
\* the schema versions: the running tool writes and expects the highest one
MaxVersion == 2

\* a serialized artifact on disk: the schema version of the tool that wrote
\* it and the modules it describes
Artifacts ==
    [kind : {"global_index", "module_graph", "manifest"}, exists : BOOLEAN,
     version : 1..MaxVersion, modules : SUBSET NameSet]

\* GlobalIndex._load, ModuleGraph._load: when the file exists it is unpickled
\* and data.get('index') / data.get('graph') is taken as it is.
\* KBManifest.load: when the file exists it is parsed and from_dict copies its
\* fields, kb_version among them, into the object.
load_artifact(a) ==
    IF ~a.exists THEN [status |-> "absent", modules |-> {}]
    ELSE [status |-> "loaded", modules |-> a.modules]

\* an object is constructed over the artifact of its kind
LoadArtifact ==
    /\ index.op = "artifact"
    /\ index' = [index EXCEPT !.op = "load", !.loaded = load_artifact(index.artifact)]
    /\ UNCHANGED <<tree, files, modulesJson, pstate, checkpoint, manifest, clock, edits,
                   run, parser, last>>

InitArtifacts ==
    /\ tree = EmptyFn
    /\ files = {}
    /\ modulesJson = <<>>
    /\ pstate = EmptyFn
    /\ checkpoint = <<>>
    /\ manifest = NoManifest
    /\ clock = 0
    /\ edits = 0
    /\ run = NoRun
    /\ parser = NoParser
    /\ \E a \in Artifacts :
        index = [op |-> "artifact", artifact |-> a,
                 loaded |-> [status |-> "none", modules |-> {}]]
    /\ last = Idle

NextArtifacts == LoadArtifact

SpecArtifacts == InitArtifacts /\ [][NextArtifacts]_vars

\* ------------------------------------------------------------- the full run
GenerateMarker == <<"generate", "", "skill_generated.txt">>
GenerateResult == <<"generate", "", "generate_result.json">>

\* PipelineCoordinator.STAGES
AllStages == <<"discover", "extract", "analyze", "build", "generate">>

\* the choices a run makes: the order the scan yields, each module's outcome
\* in Extraction and in Analysis, the modules whose graph the build completes
RunChoices ==
    [ml : DiscoverModules, extract : [DOMAIN tree -> {"success", "error"}],
     analyze : [DOMAIN tree -> {"success", "skipped", "error"}],
     built : SUBSET {DirName(d) : d \in DOMAIN tree}]

stage_is_completed(s, fs) ==
    IF s = "generate" THEN GenerateMarker \in fs ELSE is_completed(s, fs)

\* stage.run() of the stage s in the state st, as run_stage calls it
stage_run(s, st, par, ch) ==
    CASE s = "discover" ->
            [st EXCEPT !.files = @ \cup {KBDir, ModulesJsonPath}, !.modulesJson = ch.ml]
      [] s = "extract" ->
            IF ModulesJsonPath \notin st.files THEN [st EXCEPT !.ok = FALSE]
            ELSE [st EXCEPT !.files = @ \cup {KBDir, ExtractSummary} \cup
                    ExtractWrites({d \in Range(st.modulesJson) : ch.extract[d] = "success"},
                                  par)]
      [] s = "analyze" ->
            IF ModulesJsonPath \notin st.files THEN [st EXCEPT !.ok = FALSE]
            ELSE [st EXCEPT !.files = @ \cup {KBDir, AnalyzeSummary} \cup
                    AnalyzeWrites({d \in Range(st.modulesJson) : ch.analyze[d] = "success"})]
      [] s = "build" ->
            LET okNames == ch.built \cap AnalyzedNames(st.files)
                r == IF par > 1 THEN BuildParallel(st.files, okNames)
                     ELSE BuildSerial(st.files, okNames)
            IN [st EXCEPT !.files = r.files, !.ok = (r.outcome = "ok")]
      [] s = "generate" ->
            IF KBDir \notin st.files THEN [st EXCEPT !.ok = FALSE]
            ELSE [st EXCEPT !.files = @ \cup {GenerateMarker, GenerateResult}]

\* PipelineCoordinator.run_stage on the state st: skipped, or run and marked
run_stage(s, st, force, par, ch) ==
    IF stage_is_completed(s, st.files) /\ ~force THEN st
    ELSE LET r == stage_run(s, st, par, ch) IN
         [r EXCEPT !.pstate = MarkState(st.pstate, s,
                                        IF r.ok THEN "completed" ELSE "failed", r.files),
                   !.ran = @ \cup {s}]

\* the loop of run_all from the k-th stage on: a stage that raises ends it
RECURSIVE run_all(_, _, _, _, _)
run_all(k, st, force, par, ch) ==
    IF k > Len(AllStages) \/ ~st.ok THEN st
    ELSE run_all(k + 1, run_stage(AllStages[k], st, force, par, ch), force, par, ch)

\* PipelineCoordinator.run_all
RunAll(force, par) ==
    \E ch \in RunChoices :
        LET st == run_all(1, [files |-> files, modulesJson |-> modulesJson,
                              pstate |-> pstate, ok |-> TRUE, ran |-> {}],
                          force, par, ch)
        IN /\ files' = st.files
           /\ modulesJson' = st.modulesJson
           /\ pstate' = st.pstate
           /\ last' = [Idle EXCEPT !.op = "run_all", !.force = force,
                                   !.outcome = IF st.ok THEN "ok" ELSE "error",
                                   !.processed = st.ran]
    /\ UNCHANGED <<tree, checkpoint, manifest, clock, edits, run, parser, index>>

NextRunAll ==
    \/ \E force \in BOOLEAN, par \in Parallels : RunAll(force, par)
    \/ \E s \in StageSet : CleanStage(s)
    \/ UpdateNoManifest("update")

SpecRunAll == InitPipeline /\ [][NextRunAll]_vars

\* ------------------------------------------------------------------ claims
\* C1: analysis resumes from its checkpoint. Every module whose analysis a
\* run counts as a success is recorded in the checkpoint set by that step; a
\* non-forced start processes exactly the modules not in the checkpoint set,
\* so that a restart after an interrupted or finished run processes none of
\* the modules that run had completed; a forced start processes every module.
C1_CheckpointedResume ==
    [][/\ (last'.op = "collect" /\ last'.outcome = "success")
            => \A t \in last'.processed : DirName(t[2]) \in Range(checkpoint')
       /\ (last'.op = "start" /\ ~last'.force)
            => /\ last'.processed = {"analyze"} \X
                     {d \in Range(modulesJson) : DirName(d) \notin Range(checkpoint)}
               /\ (last.op \in {"crash", "finish"}
                     => last'.processed \cap last.processed = {})
       /\ (last'.op = "start" /\ last'.force)
            => last'.processed = {"analyze"} \X Range(modulesJson)]_vars

\* C2: a stage's work executes only when every stage it depends on has
\* completed: extract after discover, analyze after discover and extract,
\* build after discover, extract and analyze.
C2_StagePreconditions ==
    [][(last'.op = "run_stage" /\ last'.outcome = "ok")
        => validate_dependencies(last'.stage, files)]_vars

\* C3: an invocation that fails on a missing precondition leaves every
\* persisted artifact (stage outputs, index directory, configuration file,
\* manifest) exactly as it was.
C3_FatalWithoutSideEffects ==
    [][(last'.op \in {"run_stage", "update"} /\ last'.outcome = "error")
        => (files' = files /\ modulesJson' = modulesJson
            /\ checkpoint' = checkpoint /\ manifest' = manifest)]_vars

\* C4: a non-forced run skips a stage only when the pipeline-state file
\* records the stage as completed; a stage recorded as failed, or without a
\* record, is executed.
C4_StateFileDecidesSkip ==
    [][(last'.op = "run_stage" /\ ~last'.force /\ last'.outcome = "skipped")
        => state_is_completed(last'.stage, pstate)]_vars

\* the hashes the fresh scan computed for the modules named n
FreshHashes(n, ml) == {tree[d] : d \in {x \in Range(ml) : DirName(x) = n}}

DiffClasses(D) == <<D.added, D.modified, D.removed, D.unchanged>>

\* C5: the diff puts every module of the prior manifest or of the fresh scan
\* in exactly one class: added (only in the scan), removed (only in the
\* manifest), modified (in both, hash differs), unchanged (in both, hash equal).
C5_DiffClassifies ==
    [][(last'.op \in {"update", "check"} /\ last'.outcome # "error") =>
        LET old == manifest.modules
            scanned == {DirName(d) : d \in Range(modulesJson')}
            D == last'.diff
        IN /\ D.added \cup D.modified \cup D.removed \cup D.unchanged
                = DOMAIN old \cup scanned
           /\ \A n \in DOMAIN old \cup scanned :
                /\ Cardinality({i \in 1..4 : n \in DiffClasses(D)[i]}) = 1
                /\ n \in D.added <=> (n \notin DOMAIN old /\ n \in scanned)
                /\ n \in D.removed <=> (n \in DOMAIN old /\ n \notin scanned)
                /\ n \in D.modified =>
                        /\ n \in DOMAIN old /\ n \in scanned
                        /\ \E h \in FreshHashes(n, modulesJson') : h # old[n].hash
                /\ n \in D.unchanged =>
                        /\ n \in DOMAIN old /\ n \in scanned
                        /\ old[n].hash \in FreshHashes(n, modulesJson')]_vars

\* a diff with a module in each of the four classes has been computed
C5_Witness ==
    /\ last.op \in {"update", "check"}
    /\ last.diff.added # {} /\ last.diff.modified # {}
    /\ last.diff.removed # {} /\ last.diff.unchanged # {}

\* C6: the manifest an update writes holds the prior entry of every unchanged
\* module, a freshly computed entry for every added or modified module, and no
\* entry at all for a removed module.
C6_MergedManifest ==
    [][(last'.op = "update" /\ last'.outcome = "updated") =>
        LET D == last'.diff
            new == manifest'
        IN /\ \A n \in D.unchanged :
                /\ n \in DOMAIN new.modules /\ new.modules[n] = manifest.modules[n]
           /\ \A n \in D.added \cup D.modified :
                /\ n \in DOMAIN new.modules
                /\ new.modules[n].hash \in FreshHashes(n, modulesJson')
                /\ new.modules[n].indexed_at = clock'
                /\ n \in DOMAIN new.files
                /\ new.files[n] \in FreshHashes(n, modulesJson')
           /\ \A n \in D.removed :
                n \notin DOMAIN new.modules /\ n \notin DOMAIN new.files]_vars

\* C7: an update passes exactly the added and the modified modules through
\* Extraction, Analysis and Build, and no unchanged module.
C7_ChangedSubsetReprocessed ==
    [][(last'.op = "update" /\ last'.outcome = "updated") =>
        last'.processed = {"extract", "analyze", "build"}
                            \X (last'.diff.added \cup last'.diff.modified)]_vars

\* C8: a checkpoint write is append-only and idempotent. A write of module m
\* leaves the checkpoint set equal to the old set plus m, with the entries
\* recorded before it kept in place; writing a module that is already
\* recorded changes nothing; no step ever loses a recorded module.
C8_CheckpointAppendOnly ==
    [][/\ Range(checkpoint) \subseteq Range(checkpoint')
       /\ (last'.op = "collect" /\ last'.outcome = "success" /\ run.impl = "parallel")
            => \A t \in last'.processed :
                /\ Range(checkpoint') = Range(checkpoint) \cup {DirName(t[2])}
                /\ SubSeq(checkpoint', 1, Len(checkpoint)) = checkpoint
                /\ Len(checkpoint') = Cardinality(Range(checkpoint'))
                /\ CheckpointPath \in files'
                /\ (DirName(t[2]) \in Range(checkpoint) => checkpoint' = checkpoint)]_vars

\* a forced run has just written again a module that was recorded when the
\* run started, after writing another module out of discovery order
C8_Witness ==
    /\ last.op = "collect" /\ last.outcome = "success"
    /\ run.impl = "parallel" /\ run.force
    /\ \A t \in last.processed : DirName(t[2]) \in run.completed_modules
    /\ Len(checkpoint) >= 2
    /\ \E i \in 1..(Len(checkpoint) - 1) : \E j, k \in 1..Len(modulesJson) :
           /\ j < k
           /\ DirName(modulesJson[j]) = checkpoint[i + 1]
           /\ DirName(modulesJson[k]) = checkpoint[i]
           /\ checkpoint[i] # checkpoint[i + 1]

\* the tasks of the running pool that have opened their output file
Writers(r) == {t \in Tasks(r) : r.tphase[t] \in {"writing", "success"}} \cup r.success

\* C10: a worker task writes only files under its own module's path, so no
\* two tasks of one stage run ever write the same file.
C10_ExclusivePaths ==
    run.impl = "parallel" =>
        \A d1, d2 \in Writers(run) :
            d1 # d2 => AnalyzeWrites({d1}) \cap AnalyzeWrites({d2}) = {}

DbWriting(r) == r.phase \in {"global_index", "fast_indices"}

\* C9: while the build writes an index or database, in any execution mode,
\* every per-module graph artifact exists and no graph task is running.
C9_IndexAfterAllGraphs ==
    DbWriting(run) =>
        /\ Running(run) = {}
        /\ \A n \in Tasks(run) : GraphPkl(n) \in files

\* C9 as the code has it: an index or database write never overlaps a graph
\* task; with a worker pool no such write begins until every graph task has
\* ended (its graph saved unless the task failed); the serial build writes
\* the global index before the graph tasks start and the fast indices after
\* they have all ended.
C9_IndexWriteOrdering ==
    DbWriting(run) =>
        /\ Running(run) = {}
        /\ \A n \in Tasks(run) \ run.failed :
              (run.impl = "build_parallel" \/ run.phase = "fast_indices")
                  => (run.tphase[n] = "done" /\ GraphPkl(n) \in files)
        /\ \A n \in run.failed : run.tphase[n] = "done"
        /\ (run.impl = "build_serial" /\ run.phase = "global_index")
              => \A n \in Tasks(run) : run.tphase[n] = "queued"

\* the worker-pool build writes the global index after two graph tasks that
\* ran at the same time have ended
C9_Witness ==
    /\ run.impl = "build_parallel" /\ run.phase = "global_index"
    /\ Cardinality(run.success) >= 2
    /\ last.op = "joined"

\* what a failure of one module does to the run: the failure is appended to
\* the run's failure list, the run goes on, no other module's state changes
FailureIsLocal ==
    (last'.op = "collect" /\ last'.outcome = "error")
        => \A t \in last'.processed :
            /\ run'.impl = run.impl
            /\ run'.failed_modules = Append(run.failed_modules, DirName(t[2]))
            /\ run'.failed = run.failed \cup {t[2]}
            /\ \A e \in Tasks(run) \ {t[2]} : run'.tphase[e] = run.tphase[e]

\* the run returns normally once every discovered module has been processed
RunCompletes ==
    last'.op = "finish"
        => /\ last'.outcome = "ok"
           /\ \A t \in Tasks(run) : run.tphase[t] = "collected"
           /\ Len(run.failed_modules) = Cardinality(run.failed)
           /\ last'.summary.failed_count = Cardinality(run.failed)

\* C11: in Extraction and Analysis a failure while processing one module is
\* local: it is in the failure list of the summary the stage saves and
\* returns, every other discovered module is still processed, and the stage
\* run does not fail.
C11_FailureRecorded ==
    [][/\ FailureIsLocal
       /\ RunCompletes
       /\ last'.op = "finish"
            => /\ Len(last'.summary.failed_modules) = Cardinality(run.failed)
               /\ \A d \in run.failed :
                     DirName(d) \in Range(last'.summary.failed_modules)]_vars

\* C11 as the code has it: a failure is appended to the run's failure list and
\* counted in failed_count, every other module is still processed and the run
\* does not fail; the summary of Extraction lists every failed module, the
\* summary of Analysis lists the first ten of them.
C11_FailureIsLocal ==
    [][/\ FailureIsLocal
       /\ RunCompletes
       /\ last'.op = "finish"
            => last'.summary.failed_modules =
                  IF last'.stage = "analyze" THEN FirstFailed(run.failed_modules)
                  ELSE run.failed_modules]_vars

\* a stage run has finished with one module failed and recorded and
\* the other modules processed successfully
C11_Witness ==
    /\ last.op = "finish" /\ last.outcome = "ok"
    /\ last.summary.failed_count = 1
    /\ Len(last.summary.failed_modules) = 1
    /\ Cardinality(last.processed) = last.summary.total_modules - 1
    /\ last.summary.total_modules > 1

\* C12: when Extraction completes, serially or with a worker pool, the
\* dependency result and the content manifest of every discovered module
\* (of every module whose extraction did not fail) are persisted.
C12_ExtractPersistsManifest ==
    [][(last'.op = "finish" /\ last'.stage = "extract")
        => \A d \in run.success :
              /\ DependenciesJson(DirName(d)) \in files'
              /\ ModuleManifestJson(DirName(d)) \in files']_vars

\* the records of kind what that the good files among the first n files declare
RECURSIVE GoodRecords(_, _, _)
GoodRecords(what, kinds, n) ==
    IF n = 0 THEN <<>>
    ELSE GoodRecords(what, kinds, n - 1)
            \o (IF kinds[n] = "good" THEN <<RecordOf(what, n)>> ELSE <<>>)

\* C13: a parse exception for one source file does not abort the batch: the
\* file contributes no class, function or enum record, and every other file
\* of the module is parsed and its records are kept (the serial stage
\* extracts no enums from any file).
C13_ParseFailureSkipsFile ==
    parser.op \in {"analyze_module", "code_graph"} =>
        /\ parser.classes = GoodRecords("classes", parser.kinds, parser.idx - 1)
        /\ parser.functions = GoodRecords("functions", parser.kinds, parser.idx - 1)
        /\ parser.enums = IF parser.impl = "worker"
                          THEN GoodRecords("enums", parser.kinds, parser.idx - 1)
                          ELSE <<>>
        /\ (parser.op = "code_graph" => parser.idx = Len(parser.kinds) + 1)

\* a module's analysis has ended with a file whose parsing raised between
\* two good files, both of which contributed their records
C13_Witness ==
    /\ parser.op = "code_graph"
    /\ Len(parser.kinds) = 3
    /\ parser.kinds[1] = "good" /\ parser.kinds[2] = "parse_error"
    /\ parser.kinds[3] = "good"
    /\ Len(parser.classes) = 2 /\ Len(parser.functions) = 2

\* C14: after the global index is built, the dependency graph has an edge
\* A -> B only between modules A and B of the index and no node that is not a
\* module of the index, and every dependency name a module declares, also one
\* that names no module, is in the dependency list of the module's entry.
C14_DependencyGraphEdges ==
    [][index'.op = "build_global_index"
        => /\ \A e \in index'.graph.edges :
                 e[1] \in DOMAIN index'.index /\ e[2] \in DOMAIN index'.index
           /\ index'.graph.nodes \subseteq DOMAIN index'.index
           /\ \A n \in DOMAIN index.declared :
                 index'.index[n] = index.declared[n]]_vars

\* the (name, module, declaring file, line) of a row
Key4(r) == <<r.name, r.module, r.file_path, r.line_number>>

\* the number of rows of a table with the given (name, module, file, line)
RowsWith(table, k) ==
    BagCardinality([r \in {x \in DOMAIN table : Key4(x) = k} |-> table[r]])

\* C16: in each flattened index, after every single or batch insert no two
\* rows share the same (name, module, declaring file, line); a single insert
\* of an entry whose (name, module, file, line) is already in the table adds
\* no row, and it leaves the rows of every other (name, module, file, line),
\* the same name in another module included, as they were.
C16_UniqueRows ==
    [][index'.op \in {"add", "add_batch"}
        => /\ \A r \in DOMAIN index'.table : RowsWith(index'.table, Key4(r)) = 1
           /\ index'.op = "add"
                => LET e == index'.args[1] IN
                   /\ RowsWith(index.table, Key4(e)) > 0
                        => BagCardinality(index'.table) = BagCardinality(index.table)
                   /\ \A r \in DOMAIN index.table :
                        Key4(r) # Key4(e) => CopiesIn(r, index'.table) = CopiesIn(r, index.table)]_vars

\* the flattened index of a kind of record
IndexOf(ix, kind) ==
    CASE kind = "class" -> ix.class_index
      [] kind = "function" -> ix.function_index
      [] kind = "enum" -> ix.enum_index

\* C15: after Build has built the fast indices, the class, function and enum
\* index exist, and for every record of every module's code graph an
\* exact-name query on the index of its kind returns a row with the record's
\* declaring file and line.
C15_IndexRoundTrip ==
    index.op = "build_fast_indices"
        => /\ index.created = {"class", "function", "enum"}
           /\ \A mod \in DOMAIN index.code_graphs :
                \A k \in 1..Len(index.code_graphs[mod]) :
                    LET rec == index.code_graphs[mod][k] IN
                    \E row \in query_by_name(IndexOf(index, rec.kind), rec.name) :
                        /\ row.file_path = rec.file_path
                        /\ row.line_number = rec.line_number

\* the names of a sequence of module directories
NamesOf(p) == [i \in 1..Len(p) |-> DirName(p[i])]

\* C17: the summary a worker-pool run of Extraction or Analysis saves and
\* returns is determined by which modules failed, not by the order in which
\* the workers' results arrive: its counts are those of the result sets and
\* its failed modules are listed sorted by module name.
C17_DeterministicSummary ==
    [][(run.impl \in {"parallel", "extract_parallel"} /\ last'.op = "finish")
        => /\ last'.summary.failed_count = Cardinality(run.failed)
           /\ last'.summary.success_count = Cardinality(Tasks(run)) - Cardinality(run.failed)
           /\ \E p \in SortedByName(run.failed) :
                last'.summary.failed_modules
                    = IF run.impl = "parallel" THEN FirstFailed(NamesOf(p)) ELSE NamesOf(p)]_vars

\* the text of a file scanned once from start to end with a comment state:
\* "code", "block" (after /* until */, across line ends) or "line" (after //
\* until the end of the line); the characters met in the code state are the
\* code of their line
RECURSIVE CodeLines(_, _, _, _)
CodeLines(content, i, state, cur) ==
    IF i > Len(content) THEN <<Normalize(cur)>>
    ELSE IF content[i] = "\n"
         THEN <<Normalize(cur)>>
              \o CodeLines(content, i + 1, IF state = "line" THEN "code" ELSE state, <<>>)
    ELSE IF state = "block"
         THEN IF At2(content, i, "*", "/") THEN CodeLines(content, i + 2, "code", cur)
              ELSE CodeLines(content, i + 1, "block", cur)
    ELSE IF state = "line" THEN CodeLines(content, i + 1, "line", cur)
    ELSE IF At2(content, i, "/", "/") THEN CodeLines(content, i + 2, "line", cur)
    ELSE IF At2(content, i, "/", "*") THEN CodeLines(content, i + 2, "block", cur)
    ELSE CodeLines(content, i + 1, "code", Append(cur, content[i]))

\* C18: comment stripping carries the block-comment state across lines: the
\* lines it returns hold exactly the text that a scan of the whole file meets
\* outside comments: nothing after an unterminated /* until its */, also on
\* later lines, and everything after the terminator and around an inline
\* comment (blanks collapsed, trailing blanks removed).
C18_CommentStateSpansLines ==
    parser.op = "preprocess" => parser.lines = CodeLines(parser.content, 1, "code", <<>>)

\* a block comment opened on the first line ends on the second, and the code
\* after its terminator is kept
C18_Witness ==
    /\ parser.op = "preprocess"
    /\ parser.content = <<"/", "*", "\n", "*", "/", "x">>
    /\ parser.lines = <<<<>>, <<"x">>>>

\* the macro of a kind of declaration is on the line
HasMacro(l, kind) == IF kind = "class" THEN l.uclass ELSE l.uenum

\* the macro line a declaration on line j belongs to: line j when the macro is
\* on it, else line j - 1 when the macro is there with no declaration of the
\* kind of its own, else none (0)
MacroLineOf(lines, j, kind) ==
    IF HasMacro(lines[j], kind) THEN j
    ELSE IF j > 1 /\ HasMacro(lines[j - 1], kind) /\ lines[j - 1].decl # kind THEN j - 1
    ELSE 0

\* C19: every class and enum declaration is recorded with the specifier map of
\* the reflection macro on its own line or on the line just before it, and of
\* no other macro: it is marked as macro-annotated exactly when there is such
\* a macro line.
C19_MacroOnSameOrNextLine ==
    parser.op = "parse_content"
        => \A j \in 1..Len(parser.lines) :
             LET kind == parser.lines[j].decl IN
             kind # "none"
                => \E rec \in parser.classes \cup parser.enums :
                     /\ rec.kind = kind
                     /\ rec.line_number = j
                     /\ rec.spec_line = MacroLineOf(parser.lines, j, kind)
                     /\ rec.is_macro = (rec.spec_line # 0)

\* the bracket depth after the first k characters of a text
RECURSIVE Depth(_, _)
Depth(text, k) ==
    IF k = 0 THEN 0
    ELSE Depth(text, k - 1)
         + (IF text[k] = "<" THEN 1 ELSE IF text[k] = ">" THEN -1 ELSE 0)

\* the positions of the commas outside every pair of angle brackets
TopCommas(text) == {k \in 1..Len(text) : text[k] = "," /\ Depth(text, k - 1) = 0}

\* a list with balanced angle brackets and no empty top-level entry
WellFormedList(text) ==
    /\ \A k \in 1..Len(text) : Depth(text, k) >= 0
    /\ Depth(text, Len(text)) = 0
    /\ text[1] # "," /\ text[Len(text)] # ","
    /\ \A k \in TopCommas(text) : k + 1 \notin TopCommas(text)

\* C20: for a well-formed list, the inheritance list and the parameter list
\* are each split into as many parts as the list has top-level entries: a
\* comma inside angle brackets separates nothing.
C20_TopLevelCommasOnly ==
    (parser.op = "split" /\ WellFormedList(parser.text))
        => /\ Len(parser.parent_classes) = Cardinality(TopCommas(parser.text)) + 1
           /\ Len(parser.parameters) = Cardinality(TopCommas(parser.text)) + 1

\* C21: the dependency parser returns, for each of the five collections,
\* exactly the names that the statements outside comments add to that
\* collection, by an array literal or by a single quoted name.
C21_FiveDependencyLists ==
    parser.op = "parse_file"
        => \A t \in DepTypes :
             parser.dependencies[t]
                = {parser.text[k].name :
                     k \in {j \in 1..Len(parser.text) :
                              ~parser.text[j].commented /\ parser.text[j].coll = t}}

\* C22: the category Discovery gives a module follows from the first segments
\* of the declaration file's path relative to the scanned tree: Source gives
\* the next segment, Plugins gives Plugins.<type>.<name>, Platforms gives
\* Platforms.<name>, anything else gives Unknown.
C22_CategoryFromRelativePath ==
    (parser.op = "discover" /\ Len(parser.rel) >= 3)
        => LET rel == parser.rel IN
           parser.category
             = CASE rel[1] = "Source" -> <<rel[2]>>
                 [] rel[1] = "Plugins" -> <<"Plugins", rel[2], rel[3]>>
                 [] rel[1] = "Platforms" -> <<"Platforms", rel[2]>>
                 [] OTHER -> <<"Unknown">>

\* C23: an artifact (global index, module graph, manifest) written under an
\* older schema version is never loaded as current-format data.
C23_OldSchemaFailsClosed ==
    (index.op = "load" /\ index.artifact.exists /\ index.artifact.version < MaxVersion)
        => index.loaded.status # "loaded"

\* C24: when a full run ends with every stage having succeeded, a manifest
\* with the modules' hashes is on disk, so that the next incremental update
\* finds a prior manifest.
C24_FullRunPersistsManifest ==
    (last.op = "run_all" /\ last.outcome = "ok") => manifest.present

\* C25: the manifest records a new hash for a module only in a step that
\* regenerated the module's Extraction, Analysis and Build artifacts, so that
\* a module the next diff finds unchanged has artifacts of its present files.
C25_HashRecordedAfterRegeneration ==
    [][\A n \in DOMAIN manifest'.modules :
        (n \notin DOMAIN manifest.modules
            \/ manifest'.modules[n].hash # manifest.modules[n].hash)
        => ({"extract", "analyze", "build"} \X {n}) \subseteq last'.processed]_vars

\* C26: a module is in the checkpoint's completed set only if its most recent
\* attempt succeeded: once the attempt of a module (the only one of its name)
\* is collected as a failure, the completed set does not hold the module.
C26_CompletedMeansLastAttemptSucceeded ==
    [][(last'.op = "collect" /\ last'.outcome = "error" /\ run.impl = "parallel") =>
        \A t \in last'.processed :
            (\A e \in DOMAIN tree : DirName(e) = DirName(t[2]) => e = t[2])
                => DirName(t[2]) \notin Range(load(files', checkpoint'))]_vars

\* C27: the serial build and the worker-pool build produce the same module
\* index: whichever of the two has built the global index, the other one
\* would have left, from the same files, the same modules with the same
\* dependency lists and the same edges in the dependency graph.
C27_SerialAndPoolIndexAgree ==
    [][index'.op = "build_global_index" =>
        LET other == IF index'.par > 1 THEN 1 ELSE 2
            idx == add_modules(index.index, index.declared, other)
        IN /\ index'.index = idx
           /\ index'.graph = build_dependency_graph(idx, index.graph)]_vars

\* C28: after clean_stage(s), for any stage s, the stage s is reported as not
\* completed, so that the next run of s executes it even when it is not forced.
C28_CleanedStageNotCompleted ==
    [][last'.op = "clean_stage" => ~is_completed(last'.stage, files')]_vars

\* C29: the summary a resumed worker-pool run of Analysis saves accounts for
\* every module with a recorded outcome, not only for those the run processed: its count of analyzed modules is the size
\* of the checkpoint's completed set, its count of failures is the number of
\* modules that failed, and a skipped module is not counted as analyzed.
C29_SummaryAccountsForOutcomes ==
    [][(last'.op = "finish" /\ run.impl = "parallel" /\ ~run.force
            /\ run.completed_modules # {}) =>
        /\ last'.summary.success_count = Cardinality(Range(load(files', checkpoint')))
        /\ last'.summary.failed_count = Cardinality(run.failed)]_vars

\* C30: the change check of the incremental update only checks: it creates,
\* modifies and deletes no stage output file, no manifest and no pipeline state.
C30_CheckWritesNothing ==
    [][last'.op = "check" =>
        UNCHANGED <<files, modulesJson, pstate, checkpoint, manifest>>]_vars

====
